---- MODULE Spec2Model ----
(***************************************************************************)
(* Model of the context-assembly and generation-orchestration pipeline     *)
(* (ragChat, src/lib/ai/rag-service.ts) together with its callers (the web *)
(* chat API and the Discord gateway handler), the tool registry            *)
(* (src/lib/ai/mcp-service.ts) and the store/model wrappers                *)
(* (src/lib/db.ts, src/lib/gemini.ts).                                     *)
(*                                                                         *)
(* One request is in flight at a time; turns follow each other and share   *)
(* the external store (messages, embeddings, conversation titles).  Every  *)
(* awaited call of the code is one action whose outcome (success, failure, *)
(* the model's response) is chosen nondeterministically.                   *)
(* Similarities and scores are fixed-point numbers in hundredths.          *)
(***************************************************************************)
EXTENDS Integers, Sequences, FiniteSets, TLC

\* ------------------------------------------------------------------------
\* RAG_CONFIG
\* ------------------------------------------------------------------------
matchThreshold == 72
matchCount == 5
maxContextItems == 3
historyFetchCount == 20
recentMessageCount == 5
summarizationThreshold == 8
\* variant: the threshold is given in percent where a fraction is expected
deduplicationThreshold_Percent == 100 * 95

deduplicationThreshold == 95
maxToolRounds == 5

\* ------------------------------------------------------------------------
\* Values
\* ------------------------------------------------------------------------
NoText == "<undefined>"          \* response.text is undefined
NoName == "<noname>"             \* a function call without a name
NoConv == "<noconv>"             \* conversationId is undefined
NoProfile == "<noprofile>"       \* getDefaultProfile() returned null
NoError == "<noerror>"
NoId == 0

ProfileId == "p1"

ConvIds == {NoConv, "c1"}
ReplyTexts == {NoText, "answer"}

\* MCP_TOOLS: the declared capabilities
MCP_TOOLS == {"get_current_time", "search_knowledge", "save_note",
              "get_recent_conversations"}

buildGeminiFunctionDeclarations == MCP_TOOLS

\* Tool calls a model response may carry (name and the argument that matters)
ToolCalls ==
    { [name |-> "get_current_time", arg |-> "<default>"],
      [name |-> "get_current_time", arg |-> "Not/AZone"],
      [name |-> "lookup_weather", arg |-> "<default>"],
      [name |-> NoName, arg |-> "<default>"] }

\* response.functionCalls: no call, one call, or several
FunctionCallLists ==
    {<<>>} \cup { <<c>> : c \in ToolCalls }
           \cup { << [name |-> "save_note", arg |-> "note"],
                     [name |-> "get_current_time", arg |-> "<default>"] >> }

\* What generateContent can resolve to
Responses == [text : ReplyTexts, functionCalls : FunctionCallLists]

NoResponse == [text |-> NoText, functionCalls |-> <<>>]

\* Error messages carried by the exceptions the code can raise
ErrSaveMessage == "Failed to save message."
ErrEmbed == "ApiError: embedContent failed"
ErrGenerate == "ApiError: generateContent failed"
ErrTimeZone == "RangeError: Invalid time zone specified"
ErrBadJson == "SyntaxError: Unexpected token"

\* ------------------------------------------------------------------------
\* State
\* ------------------------------------------------------------------------
VARIABLES
    \* external store
    messages,        \* table "messages": sequence of rows, id = index
    embeddings,      \* table "embeddings": sequence of rows
    titles,          \* conversations.title, by conversation id
    pendingStore,    \* detached storeEmbedding calls not yet settled
    \* the request in flight
    turn,            \* number of requests started so far
    caller,          \* "none" | "web" | "discord"
    pc,              \* position of the request
    params,          \* ragChat's parameters
    profile,         \* getDefaultProfile() result
    userMsgId,       \* id returned by the first saveMessage
    queryEmbedding,  \* embedding of the message (the embedded text)
    rankedMatches,   \* rerankResults(...) output
    recentMessages,  \* getRecentMessages(...) output
    historySection,  \* the compacted history
    isDupe,          \* result of isDuplicateEmbedding
    dupes,           \* what the search inside isDuplicateEmbedding gave
    parts,           \* the parts of the prompt
    contents,        \* the running conversation context (kinds of entries)
    usedSearch,      \* the usedSearch flag
    round,           \* loop counter of the tool loop
    response,        \* latest model response
    reply,           \* the reply text
    error,           \* message of the exception ragChat raised, or NoError
    \* observation of the request in flight
    genLog,          \* configs of the generateContent requests, in order
    toolExecs,       \* number of executeTool calls
    lastTool,        \* the last tool call executed
    toolResult,      \* the text the last tool returned
    ioLog,           \* the backend calls of the turn, in order
    outcome,         \* what the caller answered
    \* one call of rerankResults
    rrResults,       \* its argument results
    rrQuery,         \* its argument query
    rrMaxResults,    \* its argument maxResults
    rrOut,           \* what it returned, or NotRun
    \* one delivery of a Discord reply
    smText,          \* the text to deliver
    smMaxLength,     \* the channel's length limit
    smChunks,        \* what splitMessage returned, or NotRun
    smSent,          \* the transport calls made, in order
    \* one request to the Meta webhook
    whReq,           \* the request being handled, or NoWebhook
    whQueue,         \* the parsed messages not answered yet
    whSends,         \* the replies sent out, in order
    \* the invocations of ragChat that run beside the one followed
    others           \* the stage and the arguments of each

vars == << messages, embeddings, titles, pendingStore, turn, caller, pc,
           params, profile, userMsgId, queryEmbedding, rankedMatches,
           recentMessages, historySection, isDupe, dupes, parts, contents, usedSearch,
           round, response, reply, error, genLog, toolExecs, lastTool,
           toolResult, ioLog, outcome, rrResults, rrQuery, rrMaxResults,
           rrOut, smText, smMaxLength, smChunks, smSent, whReq, whQueue,
           whSends, others >>

\* the state of the assistant proper, and of the two calls followed apart
appVars == << messages, embeddings, titles, pendingStore, turn, caller, pc,
              params, profile, userMsgId, queryEmbedding, rankedMatches,
              recentMessages, historySection, isDupe, dupes, parts, contents,
              usedSearch, round, response, reply, error, genLog, toolExecs,
              lastTool, toolResult, ioLog, outcome >>
rerankVars == << rrResults, rrQuery, rrMaxResults, rrOut >>
splitVars == << smText, smMaxLength, smChunks, smSent >>
webhookVars == << whReq, whQueue, whSends >>

storeVars == << messages, embeddings, titles, pendingStore >>
localVars == << profile, userMsgId, queryEmbedding, rankedMatches,
                recentMessages, historySection, isDupe, dupes, parts, contents,
                usedSearch, round, response, reply >>
obsVars == << genLog, toolExecs, lastTool, toolResult, ioLog >>

NoFile == [name |-> "<none>", mimeType |-> "<none>", base64 |-> "", size |-> 0]
NoImage == "<none>"
NoParams == [message |-> "", channel |-> "web", imageBase64 |-> NoImage,
             file |-> NoFile, conversationId |-> NoConv, thinking |-> FALSE]
NoHistory == [kind |-> "none", summary |-> "", lines |-> <<>>]
NoCall == [name |-> NoName, arg |-> "<default>"]
NoDupes == [failed |-> FALSE, items |-> <<>>]
NoOutcome == [kind |-> "none", status |-> 0, text |-> "", messageId |-> NoId]
EmptyVec == "<emptyvec>"         \* generateEmbedding returned []

\* ------------------------------------------------------------------------
\* Text helpers (the universe of texts is finite, so these are tables)
\* ------------------------------------------------------------------------
\* text.toLowerCase().split(/\s+/)
Words(t) ==
    CASE t = "hello" -> {"hello"}
      [] t = "what time" -> {"what", "time"}
      [] t = "hello world" -> {"hello", "world"}
      [] t = "time zones" -> {"time", "zones"}
      [] t = "note" -> {"note"}
      [] OTHER -> {}

\* the characters \s matches and trim removes, among those of the texts
WhiteSpace == {" ", "\n", "\t"}

RECURSIVE TrimStart(_)
\* String.prototype.trimStart
TrimStart(t) ==
    IF Len(t) > 0 /\ SubSeq(t, 1, 1) \in WhiteSpace
    THEN TrimStart(SubSeq(t, 2, Len(t))) ELSE t

RECURSIVE TrimEnd(_)
TrimEnd(t) ==
    IF Len(t) > 0 /\ SubSeq(t, Len(t), Len(t)) \in WhiteSpace
    THEN TrimEnd(SubSeq(t, 1, Len(t) - 1)) ELSE t

\* String.prototype.trim
Trim(t) == TrimEnd(TrimStart(t))

\* String.prototype.slice(-n)
SliceLast_Head(t, n) == SubSeq(t, 1, IF Len(t) > n THEN n ELSE Len(t))

SliceLast(t, n) ==
    SubSeq(t, (IF Len(t) > n THEN Len(t) - n ELSE 0) + 1, Len(t))

RECURSIVE Repeat(_, _)
\* String.prototype.repeat
Repeat(t, n) == IF n = 0 THEN "" ELSE t \o Repeat(t, n - 1)

\* cosine similarity of the embeddings of two texts, in hundredths
Sim(a, b) ==
    IF a = b THEN 100
    ELSE IF a = EmptyVec \/ b = EmptyVec THEN 0
    ELSE IF Words(a) \cap Words(b) # {} THEN 80
    ELSE 40

NoSim == -1      \* the row carries no similarity field

\* stable sort of a sequence of records by field key, descending
InsertDesc(sorted, p) ==
    LET k == Cardinality({ i \in 1..Len(sorted) : sorted[i].key >= p.key })
    IN  SubSeq(sorted, 1, k) \o <<p>> \o SubSeq(sorted, k + 1, Len(sorted))

RECURSIVE SortDesc(_)
SortDesc(s) ==
    IF s = <<>> THEN <<>>
    ELSE InsertDesc(SortDesc(SubSeq(s, 1, Len(s) - 1)), s[Len(s)])

Take(s, n) == SubSeq(s, 1, IF Len(s) < n THEN Len(s) ELSE n)

\* Array.prototype.slice(-n) and slice(0, -n)
AllButLastN_OneMore(s, n) ==
    SubSeq(s, 1, IF Len(s) > n THEN Len(s) - n + 1 ELSE 0)

LastN(s, n) == SubSeq(s, (IF Len(s) > n THEN Len(s) - n ELSE 0) + 1, Len(s))
AllButLastN(s, n) == SubSeq(s, 1, IF Len(s) > n THEN Len(s) - n ELSE 0)

RECURSIVE SelectIdx(_, _, _)
\* indices i of s, ascending, with Keep[i]
SelectIdx(n, keep, acc) ==
    IF n = 0 THEN acc
    ELSE SelectIdx(n - 1, keep,
                   IF n \in keep THEN <<n>> \o acc ELSE acc)

\* ------------------------------------------------------------------------
\* The store (db.ts)
\* ------------------------------------------------------------------------
\* RPC match_embeddings: rows at or above the similarity floor, scoped to
\* the owner when one is given, best first, at most count rows
MatchEmbeddings(store, q, threshold, count, userId) ==
    LET keep == { i \in 1..Len(store) :
                    /\ Sim(q, store[i].content) >= threshold
                    /\ (userId # NoProfile => store[i].owner = userId) }
        idx  == SelectIdx(Len(store), keep, <<>>)
        rows == [ j \in 1..Len(idx) |->
                    [key |-> Sim(q, store[idx[j]].content), id |-> idx[j],
                     content |-> store[idx[j]].content,
                     source |-> store[idx[j]].source] ]
        best == Take(SortDesc(rows), count)
    IN  [ j \in 1..Len(best) |->
            [id |-> best[j].id, content |-> best[j].content,
             source |-> best[j].source, similarity |-> best[j].key] ]

\* searchEmbeddings: [] on error; the mapping keeps id, content, metadata
\* and createdAt, and drops the row's similarity
searchEmbeddings(store, ok, q, threshold, count, userId) ==
    IF ~ok THEN <<>>
    ELSE LET data == MatchEmbeddings(store, q, threshold, count, userId)
         IN  [ j \in 1..Len(data) |->
                 [id |-> data[j].id, content |-> data[j].content,
                  source |-> data[j].source, similarity |-> NoSim] ]

\* variant: the rows are handed back as the query gives them, newest first
getRecentMessages_NoReverse(store, ok, limit, channel, conversationId) ==
    IF ~ok THEN <<>>
    ELSE LET keep == { i \in 1..Len(store) :
                         IF conversationId # NoConv
                         THEN store[i].conv = conversationId
                         ELSE store[i].channel = channel }
             idx == LastN(SelectIdx(Len(store), keep, <<>>), limit)
         IN  [ j \in 1..Len(idx) |->
                 [id |-> idx[Len(idx) + 1 - j],
                  role |-> store[idx[Len(idx) + 1 - j]].role,
                  content |-> store[idx[Len(idx) + 1 - j]].content,
                  channel |-> store[idx[Len(idx) + 1 - j]].channel] ]

\* variant: the window is read as the table was before its newest insert
getRecentMessages_BeforeInsert(store, ok, limit, channel, conversationId) ==
    IF ~ok THEN <<>>
    ELSE LET keep == { i \in 1..(Len(store) - 1) :
                         IF conversationId # NoConv
                         THEN store[i].conv = conversationId
                         ELSE store[i].channel = channel }
             idx == LastN(SelectIdx(Len(store), keep, <<>>), limit)
         IN  [ j \in 1..Len(idx) |->
                 [id |-> idx[j], role |-> store[idx[j]].role,
                  content |-> store[idx[j]].content,
                  channel |-> store[idx[j]].channel] ]

\* getRecentMessages: [] on error; the newest limit rows of the conversation
\* (or, without a conversation, of the channel), oldest first
getRecentMessages(store, ok, limit, channel, conversationId) ==
    IF ~ok THEN <<>>
    ELSE LET keep == { i \in 1..Len(store) :
                         IF conversationId # NoConv
                         THEN store[i].conv = conversationId
                         ELSE store[i].channel = channel }
             idx == LastN(SelectIdx(Len(store), keep, <<>>), limit)
         IN  [ j \in 1..Len(idx) |->
                 [id |-> idx[j], role |-> store[idx[j]].role,
                  content |-> store[idx[j]].content,
                  channel |-> store[idx[j]].channel] ]

\* the row saveMessage inserts
MessageRow(role, content, channel, conversationId) ==
    [role |-> role, content |-> content, channel |-> channel,
     conv |-> conversationId]

\* saveMessage: the table after the insert; the new row's id is its index
saveMessage_Upsert(store, row) ==
    IF store = <<>> THEN <<row>> ELSE [store EXCEPT ![Len(store)] = row]

saveMessage(store, row) == Append(store, row)

\* the row storeEmbedding inserts
EmbeddingRow(content, source, userProfileId) ==
    [content |-> content, source |-> source, owner |-> userProfileId]

\* the table after the insert of a row; the table has no order of its own,
\* so equal rows are kept next to each other
InsertEmbedding(store, row) ==
    LET same == { i \in 1..Len(store) : store[i] = row }
        last == IF same = {} THEN Len(store)
                ELSE CHOOSE i \in same : \A j \in same : j <= i
    IN  SubSeq(store, 1, last) \o <<row>> \o SubSeq(store, last + 1, Len(store))

\* ------------------------------------------------------------------------
\* rerankResults
\* ------------------------------------------------------------------------
UpperCase == "ABCDEFGHIJKLMNOPQRSTUVWXYZ"
LowerCase == "abcdefghijklmnopqrstuvwxyz"

\* the lower-case letter of each upper-case letter
LowerOf ==
    [ c \in { SubSeq(UpperCase, k, k) : k \in 1..Len(UpperCase) } |->
        LET k == CHOOSE k \in 1..Len(UpperCase) : SubSeq(UpperCase, k, k) = c
        IN  SubSeq(LowerCase, k, k) ]

RECURSIVE toLowerCase(_)
\* String.prototype.toLowerCase
toLowerCase(t) ==
    IF Len(t) = 0 THEN ""
    ELSE LET c == SubSeq(t, 1, 1)
         IN  (IF c \in DOMAIN LowerOf THEN LowerOf[c] ELSE c)
             \o toLowerCase(SubSeq(t, 2, Len(t)))

RECURSIVE SplitWhiteSpace(_, _, _)
\* the non-empty strings of t.split(/\s+/), as a set; cur is the run being
\* read (the empty strings split can also give are not longer than 2)
SplitWhiteSpace(t, cur, acc) ==
    LET done == IF cur = "" THEN acc ELSE acc \cup {cur}
    IN  IF Len(t) = 0 THEN done
        ELSE IF SubSeq(t, 1, 1) \in WhiteSpace
        THEN SplitWhiteSpace(SubSeq(t, 2, Len(t)), "", done)
        ELSE SplitWhiteSpace(SubSeq(t, 2, Len(t)), cur \o SubSeq(t, 1, 1),
                             acc)

\* String.prototype.includes
Includes(t, part) ==
    \E k \in 1..(Len(t) - Len(part) + 1) :
        SubSeq(t, k, k + Len(part) - 1) = part

\* scores are counted in 1/ScoreScale of a hundredth, which keeps
\* keywordHits / queryTerms.size exact for up to 6 query terms
ScoreScale == 60

\* variant: terms of 2 characters count too
queryTermsOf_TwoChars(query) ==
    { t \in SplitWhiteSpace(toLowerCase(query), "", {}) : Len(t) >= 2 }

\* new Set(query.toLowerCase().split(/\s+/).filter(t => t.length > 2))
queryTermsOf(query) ==
    { t \in SplitWhiteSpace(toLowerCase(query), "", {}) : Len(t) > 2 }

\* r.similarity ?? 0.7
cosineSimOf(r) ==
    (IF r.similarity = NoSim THEN 70 ELSE r.similarity) * ScoreScale

keywordHitsOf(r, queryTerms) ==
    Cardinality({ t \in queryTerms : Includes(toLowerCase(r.content), t) })

\* queryTerms.size > 0 ? (keywordHits / queryTerms.size) * 0.2 : 0
keywordScoreOf(r, queryTerms) ==
    IF Cardinality(queryTerms) > 0
    THEN (keywordHitsOf(r, queryTerms) * 20 * ScoreScale)
            \div Cardinality(queryTerms)
    ELSE 0

\* source === "user_message" ? 0.05 : 0
recencyBonusOf(r) == IF r.source = "user_message" THEN 5 * ScoreScale ELSE 0

totalScoreOf(r, queryTerms) ==
    cosineSimOf(r) + keywordScoreOf(r, queryTerms) + recencyBonusOf(r)

\* variant: the best maxResults candidates come out in their input order
rerankResults_Unsorted(results, query, maxResults) ==
    LET queryTerms == queryTermsOf(query)
        scored == [ j \in 1..Len(results) |->
                      [key |-> totalScoreOf(results[j], queryTerms),
                       pos |-> j] ]
        top == Take(SortDesc(scored), maxResults)
        keep == { top[j].pos : j \in 1..Len(top) }
        idx == SelectIdx(Len(results), keep, <<>>)
    IN  [ j \in 1..Len(idx) |->
            [id |-> results[idx[j]].id, content |-> results[idx[j]].content,
             source |-> results[idx[j]].source,
             similarity |-> results[idx[j]].similarity,
             totalScore |-> totalScoreOf(results[idx[j]], queryTerms)] ]

\* rerankResults: every result with its totalScore, sorted by it, best
\* first (the sort is stable), cut to maxResults
rerankResults(results, query, maxResults) ==
    LET queryTerms == queryTermsOf(query)
        scored == [ j \in 1..Len(results) |->
                      [key |-> totalScoreOf(results[j], queryTerms),
                       item |-> results[j]] ]
        top == Take(SortDesc(scored), maxResults)
    IN  [ j \in 1..Len(top) |->
            [id |-> top[j].item.id, content |-> top[j].item.content,
             source |-> top[j].item.source,
             similarity |-> top[j].item.similarity,
             totalScore |-> top[j].key] ]

\* ------------------------------------------------------------------------
\* Initial state: a store some earlier requests have left behind
\* ------------------------------------------------------------------------
SeedHistoryLen == 9

\* an assistant message of 480 characters
LongAnswer == Repeat("0123456789", 48)

SeedHistory ==
    [ i \in 1..SeedHistoryLen |->
        MessageRow(IF i % 2 = 1 THEN "user" ELSE "assistant",
                   IF i % 2 = 1 THEN "hello"
                   ELSE IF i = 2 THEN LongAnswer ELSE "answer",
                   "web", "c1") ]

\* a conversation that reaches the compaction threshold with its next message
ShortHistory == SubSeq(SeedHistory, 1, summarizationThreshold - 1)

\* an empty store; a store with a short conversation and one memory; a
\* store with a long conversation and several memories
SeedStores ==
    { [messages |-> <<>>, embeddings |-> <<>>],
      [messages |-> ShortHistory,
       embeddings |-> << EmbeddingRow("hello", "user_message", ProfileId) >>],
      [messages |-> SeedHistory,
       embeddings |->
         << EmbeddingRow("time zones", "knowledge", ProfileId),
            EmbeddingRow("what time", "user_message", ProfileId),
            EmbeddingRow("hello world", "mcp_save_note", NoProfile) >>] }

AppInit ==
    /\ \E seed \in SeedStores :
          /\ messages = seed.messages
          /\ embeddings = seed.embeddings
    /\ titles = [c \in ConvIds \ {NoConv} |-> "old title"]
    /\ pendingStore = {}
    /\ turn = 0
    /\ caller = "none"
    /\ pc = "idle"
    /\ params = NoParams
    /\ profile = NoProfile
    /\ userMsgId = NoId
    /\ queryEmbedding = EmptyVec
    /\ rankedMatches = <<>>
    /\ recentMessages = <<>>
    /\ historySection = NoHistory
    /\ isDupe = FALSE
    /\ dupes = NoDupes
    /\ parts = <<>>
    /\ contents = <<>>
    /\ usedSearch = TRUE
    /\ round = 0
    /\ response = NoResponse
    /\ reply = ""
    /\ error = NoError
    /\ genLog = <<>>
    /\ toolExecs = 0
    /\ lastTool = NoCall
    /\ toolResult = ""
    /\ ioLog = <<>>
    /\ outcome = NoOutcome

\* the result of a call followed apart: not made yet, or made
NotRun == [run |-> FALSE, value |-> <<>>]
Ran(v) == [run |-> TRUE, value |-> v]

\* no call of rerankResults is followed apart
RerankIdle ==
    /\ rrResults = <<>>
    /\ rrQuery = ""
    /\ rrMaxResults = 0
    /\ rrOut = NotRun

\* no delivery is followed apart
SplitIdle ==
    /\ smText = ""
    /\ smMaxLength = 1
    /\ smChunks = NotRun
    /\ smSent = <<>>

\* no webhook request is being handled
NoWebhook == [env |-> "<none>", appSecret |-> "<none>", signature |-> "<none>",
              rawBody |-> ""]

WebhookIdle ==
    /\ whReq = NoWebhook
    /\ whQueue = <<>>
    /\ whSends = <<>>

\* no other invocation runs
OthersIdle == others = <<>>

Init == AppInit /\ RerankIdle /\ SplitIdle /\ WebhookIdle /\ OthersIdle

\* ------------------------------------------------------------------------
\* POST /api/chat (route.ts)
\* ------------------------------------------------------------------------
VALID_CHANNELS == {"web", "discord"}
MaxMessageLength == 10000
ErrRequired == "Message is required."
ErrTooLong == "Message is too long (max 10,000 characters)."
ErrChannel == "Invalid channel. Must be one of: web, discord"
ErrMime(mimeType) == "Unsupported file type: " \o mimeType
ErrFileSize == "File too large. Max 20 MB."

ALL_SUPPORTED_MIME_TYPES ==
    {"image/jpeg", "image/png", "image/webp", "image/heic",
     "audio/mp3", "audio/mpeg", "audio/wav", "audio/flac", "audio/ogg",
     "audio/m4a", "audio/x-aac",
     "video/mp4", "video/quicktime", "video/webm",
     "application/pdf",
     "text/plain", "text/csv", "text/html", "text/css", "text/javascript",
     "application/json", "application/xml"}
MAX_FILE_SIZE_MB == 20
MAX_FILE_SIZE_BYTES == MAX_FILE_SIZE_MB * 1024 * 1024
ErrUnexpected == "An unexpected error occurred."

\* request bodies: message is absent, not a string, over-long, or a text
\* a message of more than 40 characters
LongMessage == "what is the time zone of Ho Chi Minh City right now"
\* a message of MaxMessageLength + 1 characters
TooLongMessage ==
    Repeat(Repeat(Repeat(Repeat("a", 10), 10), 10), 10) \o "a"
WebMessages == {"<missing>", "<number>", "", TooLongMessage, "hello",
                " hello ", "what time", LongMessage}
WebChannels == {"<default>", "web", "sms"}
\* body.file: absent, or an attachment with its declared type and size
WebFiles ==
    { NoFile,
      [name |-> "a.pdf", mimeType |-> "application/pdf", base64 |-> "JVBERi0=",
       size |-> MAX_FILE_SIZE_BYTES],
      [name |-> "b.pdf", mimeType |-> "application/pdf", base64 |-> "JVBERi0=",
       size |-> MAX_FILE_SIZE_BYTES + 1],
      [name |-> "c.zip", mimeType |-> "application/zip", base64 |-> "UEsDBA==",
       size |-> 1024],
      [name |-> "d.zip", mimeType |-> "application/zip", base64 |-> "UEsDBA==",
       size |-> MAX_FILE_SIZE_BYTES + 1] }
\* body.imageBase64: absent, or the data of a legacy image
WebImages == {NoImage, "/9j/4AAQ"}

\* request bodies without an attachment, and bodies with attachments
WebRequests ==
    [json : BOOLEAN, message : WebMessages, channel : WebChannels,
     imageBase64 : {NoImage}, file : {NoFile}, conversationId : ConvIds,
     thinking : BOOLEAN]
    \cup
    [json : {TRUE}, message : {"<missing>", "hello"}, channel : {"web", "sms"},
     imageBase64 : WebImages, file : WebFiles, conversationId : ConvIds,
     thinking : {FALSE}]

\* variant: the declared size of the file is not looked at
Validate_NoSizeCheck(req) ==
    IF req.message = "" \/ req.message \in {"<missing>", "<number>"}
    THEN ErrRequired
    ELSE IF Len(req.message) > MaxMessageLength THEN ErrTooLong
    ELSE IF (IF req.channel = "<default>" THEN "web" ELSE req.channel)
              \notin VALID_CHANNELS THEN ErrChannel
    ELSE IF req.file # NoFile
            /\ req.file.mimeType \notin ALL_SUPPORTED_MIME_TYPES
         THEN ErrMime(req.file.mimeType)
    ELSE NoError

\* the status-400 reason of a request body, or NoError when it is valid
Validate(req) ==
    IF req.message = "" \/ req.message \in {"<missing>", "<number>"}
    THEN ErrRequired
    ELSE IF Len(req.message) > MaxMessageLength THEN ErrTooLong
    ELSE IF (IF req.channel = "<default>" THEN "web" ELSE req.channel)
              \notin VALID_CHANNELS THEN ErrChannel
    ELSE IF req.file # NoFile
            /\ req.file.mimeType \notin ALL_SUPPORTED_MIME_TYPES
         THEN ErrMime(req.file.mimeType)
    ELSE IF req.file # NoFile /\ req.file.size > MAX_FILE_SIZE_BYTES
         THEN ErrFileSize
    ELSE NoError

\* variant: ragChat starts at the embedding request, the inbound message is
\* not persisted first
EnterRagChat_EmbedFirst(p) ==
    /\ params' = p
    /\ pc' = "generateEmbedding"
    /\ UNCHANGED << localVars, obsVars, error >>

\* entry into ragChat: the locals and the observation start afresh
EnterRagChat(p) ==
    /\ params' = p
    /\ pc' = "getDefaultProfile"
    /\ UNCHANGED << localVars, obsVars, error >>

POST(req) ==
    /\ pc = "idle"
    /\ UNCHANGED << rerankVars, splitVars, webhookVars, others >>
    /\ turn' = turn + 1
    /\ caller' = "web"
    /\ UNCHANGED storeVars
    /\ IF ~req.json
       THEN /\ outcome' = [kind |-> "http", status |-> 500,
                           text |-> ErrBadJson, messageId |-> NoId]
            /\ pc' = "answered"
            /\ UNCHANGED << params, localVars, obsVars, error >>
       ELSE IF Validate(req) # NoError
       THEN /\ outcome' = [kind |-> "http", status |-> 400,
                           text |-> Validate(req), messageId |-> NoId]
            /\ pc' = "answered"
            /\ UNCHANGED << params, localVars, obsVars, error >>
       ELSE /\ outcome' = outcome
            /\ EnterRagChat([message |-> Trim(req.message),
                             channel |-> IF req.channel = "<default>"
                                         THEN "web" ELSE req.channel,
                             imageBase64 |-> req.imageBase64,
                             file |-> req.file,
                             conversationId |-> req.conversationId,
                             thinking |-> req.thinking])

\* variant: the id of the row written last (the assistant reply) is returned
ragChatResult_LastRowId == [reply |-> reply, messageId |-> Len(messages)]

\* return { reply, messageId: userMsgId } at the end of ragChat
ragChatResult == [reply |-> reply, messageId |-> userMsgId]

\* the try block's tail and the catch block of POST
POSTRespond ==
    /\ caller = "web"
    /\ pc \in {"returned", "threw"}
    /\ UNCHANGED << rerankVars, splitVars, webhookVars, others >>
    /\ outcome' = IF pc = "returned"
                  THEN [kind |-> "http", status |-> 200,
                        text |-> ragChatResult.reply,
                        messageId |-> ragChatResult.messageId]
                  ELSE [kind |-> "http", status |-> 500, text |-> error,
                        messageId |-> NoId]
    /\ pc' = "answered"
    /\ UNCHANGED << storeVars, turn, caller, params, localVars, obsVars,
                    error >>

\* ------------------------------------------------------------------------
\* Discord MessageCreate handler (discord-service)
\* ------------------------------------------------------------------------
DiscordSorry == "Sorry, I encountered an error processing your message."
ErrTyping == "DiscordAPIError: sendTyping failed"

DiscordEvents ==
    [bot : BOOLEAN, content : {"", "hello", "what time"},
     allowedChannel : BOOLEAN]

MessageCreate(ev, typingOk) ==
    /\ pc = "idle"
    /\ UNCHANGED << rerankVars, splitVars, webhookVars, others >>
    /\ turn' = turn + 1
    /\ caller' = "discord"
    /\ UNCHANGED storeVars
    /\ IF ev.bot \/ ev.content = "" \/ ~ev.allowedChannel
       THEN /\ outcome' = [kind |-> "ignored", status |-> 0, text |-> "",
                           messageId |-> NoId]
            /\ pc' = "answered"
            /\ UNCHANGED << params, localVars, obsVars, error >>
       ELSE IF ~typingOk
       THEN /\ error' = ErrTyping
            /\ pc' = "threw"
            /\ UNCHANGED << params, localVars, obsVars, outcome >>
       ELSE /\ outcome' = outcome
            /\ EnterRagChat([message |-> ev.content, channel |-> "discord",
                             imageBase64 |-> NoImage, file |-> NoFile,
                             conversationId |-> NoConv,
                             thinking |-> FALSE])

\* reply delivery (sendOk: the reply or its chunks were sent) and the catch
\* block, whose own reply may fail silently (sorryOk)
MessageCreateRespond(sendOk, sorryOk) ==
    /\ caller = "discord"
    /\ pc \in {"returned", "threw"}
    /\ UNCHANGED << rerankVars, splitVars, webhookVars, others >>
    /\ outcome' = IF pc = "returned" /\ sendOk
                  THEN [kind |-> "discord", status |-> 0, text |-> reply,
                        messageId |-> NoId]
                  ELSE IF sorryOk
                  THEN [kind |-> "discord", status |-> 0,
                        text |-> DiscordSorry, messageId |-> NoId]
                  ELSE [kind |-> "discord-silent", status |-> 0, text |-> "",
                        messageId |-> NoId]
    /\ pc' = "answered"
    /\ UNCHANGED << storeVars, turn, caller, params, localVars, obsVars,
                    error >>

\* ------------------------------------------------------------------------
\* ragChat (rag-service.ts)
\* ------------------------------------------------------------------------
ThinkingBudget == 8192

\* Config A, Config B, and the summarizer's request, which has no config
searchConfig(thinking) ==
    [googleSearch |-> TRUE, functionDeclarations |-> {},
     thinkingBudget |-> IF thinking THEN ThinkingBudget ELSE 0]

toolConfig_WithSearch(thinking) ==
    [googleSearch |-> TRUE,
     functionDeclarations |-> buildGeminiFunctionDeclarations,
     thinkingBudget |-> IF thinking THEN ThinkingBudget ELSE 0]

toolConfig(thinking) ==
    [googleSearch |-> FALSE,
     functionDeclarations |-> buildGeminiFunctionDeclarations,
     thinkingBudget |-> IF thinking THEN ThinkingBudget ELSE 0]

noConfig ==
    [googleSearch |-> FALSE, functionDeclarations |-> {}, thinkingBudget |-> 0]

InRagChat(at) ==
    /\ pc = at
    /\ UNCHANGED << turn, caller, params, outcome, rerankVars, splitVars, webhookVars, others >>

\* variant: the rejection is never delivered and ragChat stays suspended
Throw_Hang(msg) == error' = msg /\ pc' = "suspended"

\* a rejected await outside any try block leaves ragChat with the exception
Throw(msg) == error' = msg /\ pc' = "threw"

\* response.text ?? ""
TextOf(resp) == IF resp.text = NoText THEN "" ELSE resp.text

\* response.functionCalls?.[0] has a name
HasCall(resp) ==
    /\ Len(resp.functionCalls) > 0
    /\ resp.functionCalls[1].name # NoName

\* `${role}: ${content}` lines of a list of messages
RenderLines(msgs) ==
    [ j \in 1..Len(msgs) |->
        [label |-> IF msgs[j].role = "user" THEN "User" ELSE "Assistant",
         content |-> msgs[j].content] ]

\* const profile = await getDefaultProfile()
GetDefaultProfile(ok) ==
    /\ InRagChat("getDefaultProfile")
    /\ profile' = IF ok THEN ProfileId ELSE NoProfile
    /\ ioLog' = Append(ioLog, "getDefaultProfile")
    /\ pc' = "saveUserMessage"
    /\ UNCHANGED << storeVars, userMsgId, queryEmbedding, rankedMatches,
                    recentMessages, historySection, isDupe, dupes, parts, contents,
                    usedSearch, round, response, reply, error, genLog,
                    toolExecs, lastTool, toolResult >>

\* variant: a failed insert of the user row is logged and the turn goes on
SaveUserMessage_Swallow(ok) ==
    /\ InRagChat("saveUserMessage")
    /\ ioLog' = Append(ioLog, "saveMessage:user")
    /\ messages' = IF ok
                   THEN saveMessage(messages,
                           MessageRow("user", params.message, params.channel,
                                      params.conversationId))
                   ELSE messages
    /\ userMsgId' = IF ok THEN Len(messages') ELSE NoId
    /\ pc' = "generateEmbedding"
    /\ UNCHANGED << embeddings, titles, pendingStore, profile,
                    queryEmbedding, rankedMatches, recentMessages,
                    historySection, isDupe, dupes, parts, contents, usedSearch, round,
                    response, reply, error, genLog, toolExecs, lastTool,
                    toolResult >>

\* const userMsgId = await saveMessage({role: "user", ...}); saveMessage
\* throws when the insert reports an error
SaveUserMessage(ok) ==
    /\ InRagChat("saveUserMessage")
    /\ ioLog' = Append(ioLog, "saveMessage:user")
    /\ IF ok
       THEN /\ messages' = saveMessage(messages,
                  MessageRow("user", params.message, params.channel,
                             params.conversationId))
            /\ userMsgId' = Len(messages')
            /\ pc' = "generateEmbedding"
            /\ error' = error
       ELSE /\ Throw(ErrSaveMessage)
            /\ UNCHANGED << messages, userMsgId >>
    /\ UNCHANGED << embeddings, titles, pendingStore, profile,
                    queryEmbedding, rankedMatches, recentMessages,
                    historySection, isDupe, dupes, parts, contents, usedSearch, round,
                    response, reply, genLog, toolExecs, lastTool,
                    toolResult >>

\* const queryEmbedding = await generateEmbedding(message): the call is
\* outside any try block, so a rejected embedContent leaves ragChat
GenerateEmbedding(res) ==
    /\ InRagChat("generateEmbedding")
    /\ ioLog' = Append(ioLog, "embedContent")
    /\ IF res = "fail"
       THEN /\ Throw(ErrEmbed)
            /\ queryEmbedding' = queryEmbedding
       ELSE /\ queryEmbedding' = IF res = "empty" THEN EmptyVec
                                 ELSE params.message
            /\ pc' = "retrieve"
            /\ error' = error
    /\ UNCHANGED << storeVars, profile, userMsgId, rankedMatches,
                    recentMessages, historySection, isDupe, dupes, parts, contents,
                    usedSearch, round, response, reply, genLog, toolExecs,
                    lastTool, toolResult >>

\* Promise.all([searchEmbeddings(...).catch(() => []), getRecentMessages(...)])
\* followed by rerankResults and, for a short history, its verbatim section
Retrieve(searchOk, historyOk) ==
    /\ InRagChat("retrieve")
    /\ ioLog' = ioLog \o << "searchEmbeddings", "getRecentMessages" >>
    /\ LET rawMatches == searchEmbeddings(embeddings, searchOk,
                             queryEmbedding, matchThreshold, matchCount,
                             profile)
           recent == getRecentMessages(messages, historyOk,
                             historyFetchCount, params.channel,
                             params.conversationId)
       IN  /\ rankedMatches' = rerankResults(rawMatches, params.message,
                                             maxContextItems)
           /\ recentMessages' = recent
           /\ IF Len(recent) > summarizationThreshold
              THEN /\ pc' = "summarizeHistory"
                   /\ historySection' = historySection
              ELSE /\ pc' = "dedup"
                   /\ historySection' =
                        IF Len(recent) > 0
                        THEN [kind |-> "verbatim", summary |-> "",
                              lines |-> RenderLines(recent)]
                        ELSE NoHistory
    /\ UNCHANGED << storeVars, profile, userMsgId, queryEmbedding, isDupe, dupes, parts,
                    contents, usedSearch, round, response, reply, error,
                    genLog, toolExecs, lastTool, toolResult >>

RECURSIVE JoinLines(_)
\* lines.map(l => `${label}: ${content}`).join("\n")
JoinLines(lines) ==
    IF Len(lines) = 0 THEN ""
    ELSE lines[1].label \o ": " \o lines[1].content \o
         (IF Len(lines) = 1 THEN "" ELSE "\n" \o JoinLines(Tail(lines)))

\* the transcript summarizeHistory builds of its messages
Transcript(msgs) == JoinLines(RenderLines(msgs))

FallbackTailLength == 500

\* summarizeHistory(msgs): "" for no message; the model's text, trimmed, or
\* "" when the response has none; on failure the last 500 characters of the
\* transcript
summarizeHistory(msgs, ok, text) ==
    IF Len(msgs) = 0 THEN ""
    ELSE IF ok THEN (IF text = NoText THEN "" ELSE Trim(text))
    ELSE SliceLast(Transcript(msgs), FallbackTailLength)

SummaryTexts == {NoText, "summary", " summary "}

\* historySection for a history above the threshold: summarizeHistory of the
\* older messages, then the recent ones verbatim
SummarizeHistory(ok, text) ==
    /\ InRagChat("summarizeHistory")
    /\ LET olderMessages == AllButLastN(recentMessages, recentMessageCount)
           recentSlice == LastN(recentMessages, recentMessageCount)
           summary == [src |-> IF ok THEN "model" ELSE "tail",
                       text |-> summarizeHistory(olderMessages, ok, text),
                       of |-> RenderLines(olderMessages)]
       IN  /\ historySection' = [kind |-> "summarized", summary |-> summary,
                                 lines |-> RenderLines(recentSlice)]
           /\ genLog' = Append(genLog, [site |-> "summary",
                                        config |-> noConfig])
    /\ ioLog' = Append(ioLog, "generateContent:summary")
    /\ pc' = "dedup"
    /\ UNCHANGED << storeVars, profile, userMsgId, queryEmbedding,
                    rankedMatches, recentMessages, isDupe, dupes, parts, contents,
                    usedSearch, round, response, reply, error, toolExecs,
                    lastTool, toolResult >>

DefaultSysPrompt == "You are Zuychin, a helpful personal AI assistant."
ProfileSysPrompt == "<the profile's systemPrompt>"

\* profile?.systemPrompt ?? "You are Zuychin, ..."
sysPromptOf(p) == IF p = NoProfile THEN DefaultSysPrompt ELSE ProfileSysPrompt

\* rankedMatches.map((m, i) => `[Memory ${i + 1}]: ${m.content}`)
relevantContextOf(ranked) ==
    [ j \in 1..Len(ranked) |-> [memory |-> j, content |-> ranked[j].content] ]

\* the heading the history section starts with
HistoryHeading(history) ==
    IF history.kind = "summarized" THEN "## Conversation Summary"
    ELSE "## Recent Conversation"

\* variant: the history is put before the memories
fullPromptOf_HistoryFirst(sysPrompt, relevantContext, history, message) ==
    << [section |-> "system", body |-> sysPrompt] >>
    \o (IF history.kind # "none"
        THEN << [section |-> HistoryHeading(history), body |-> history] >>
        ELSE <<>>)
    \o (IF Len(relevantContext) > 0
        THEN << [section |-> "## Relevant Memories",
                 body |-> relevantContext] >>
        ELSE <<>>)
    \o << [section |-> "## Current Message", body |-> "User: " \o message] >>

\* fullPrompt, as the sequence of the sections that are concatenated
fullPromptOf(sysPrompt, relevantContext, history, message) ==
    << [section |-> "system", body |-> sysPrompt] >>
    \o (IF Len(relevantContext) > 0
        THEN << [section |-> "## Relevant Memories",
                 body |-> relevantContext] >>
        ELSE <<>>)
    \o (IF history.kind # "none"
        THEN << [section |-> HistoryHeading(history), body |-> history] >>
        ELSE <<>>)
    \o << [section |-> "## Current Message", body |-> "User: " \o message] >>

\* parts: the text, the legacy image, the file
promptPartsOf(fullPrompt, imageBase64, file) ==
    << [kind |-> "text", value |-> fullPrompt] >>
    \o (IF imageBase64 # NoImage
        THEN << [kind |-> "inlineData",
                 value |-> [mimeType |-> "image/jpeg",
                            data |-> imageBase64]] >>
        ELSE <<>>)
    \o (IF file # NoFile
        THEN << [kind |-> "inlineData",
                 value |-> [mimeType |-> file.mimeType,
                            data |-> file.base64]] >>
        ELSE <<>>)

\* variant: a failed search forbids storing
isDuplicateEmbedding_FailClosed(store, ok, q, userId) ==
    ~ok \/ Len(searchEmbeddings(store, ok, q, deduplicationThreshold, 1,
                                userId)) > 0

\* variant: the test on the search result is negated
isDuplicateEmbedding_Negated(store, ok, q, userId) ==
    Len(searchEmbeddings(store, ok, q, deduplicationThreshold, 1, userId)) = 0

\* variant: one found item is not enough
isDuplicateEmbedding_TwoMatches(store, ok, q, userId) ==
    Len(searchEmbeddings(store, ok, q, deduplicationThreshold, 1, userId)) > 1

\* isDuplicateEmbedding: true exactly when the search gave an item; a search
\* that fails gives none
isDuplicateEmbedding(store, ok, q, userId) ==
    Len(searchEmbeddings(store, ok, q, deduplicationThreshold, 1, userId)) > 0

\* the dedup check, the detached storeEmbedding, and the prompt assembly up
\* to the first generateContent call
Dedup(ok) ==
    /\ InRagChat("dedup")
    /\ LET dupe == isDuplicateEmbedding(embeddings, ok, queryEmbedding,
                                        profile)
       IN  /\ isDupe' = dupe
           /\ dupes' = [failed |-> ~ok,
                        items |-> searchEmbeddings(embeddings, ok,
                                     queryEmbedding, deduplicationThreshold,
                                     1, profile)]
           /\ pendingStore' =
                IF dupe THEN pendingStore
                ELSE pendingStore \cup
                       { [turn |-> turn,
                          row |-> EmbeddingRow(params.message,
                                               "user_message", profile)] }
           /\ ioLog' = ioLog \o (IF dupe THEN << "dedupSearch" >>
                                 ELSE << "dedupSearch", "storeEmbedding" >>)
    /\ parts' = promptPartsOf(
                    fullPromptOf(sysPromptOf(profile),
                                 relevantContextOf(rankedMatches),
                                 historySection, params.message),
                    params.imageBase64, params.file)
    /\ contents' = << "prompt" >>
    /\ pc' = "grounded"
    /\ UNCHANGED << messages, embeddings, titles, profile, userMsgId,
                    queryEmbedding, rankedMatches, recentMessages,
                    historySection, usedSearch, round, response, reply,
                    error, genLog, toolExecs, lastTool, toolResult >>

\* variant: the write is awaited, so its failure is ragChat's failure
StoreEmbeddingSettle_Awaited(p, ok) ==
    /\ p \in pendingStore
    /\ UNCHANGED << rerankVars, splitVars, webhookVars, others >>
    /\ pc \notin {"returned", "threw", "answered"}
    /\ pendingStore' = pendingStore \ {p}
    /\ embeddings' = IF ok THEN InsertEmbedding(embeddings, p.row)
                     ELSE embeddings
    /\ pc' = IF ok THEN pc ELSE "threw"
    /\ error' = IF ok THEN error ELSE "Failed to store embedding."
    /\ UNCHANGED << messages, titles, turn, caller, params, localVars,
                    obsVars, outcome >>

\* the detached storeEmbedding settles: the row is inserted, or the failure
\* is logged
StoreEmbeddingSettle(p, ok) ==
    /\ p \in pendingStore
    /\ UNCHANGED << rerankVars, splitVars, webhookVars, others >>
    /\ pendingStore' = pendingStore \ {p}
    /\ embeddings' = IF ok THEN InsertEmbedding(embeddings, p.row)
                     ELSE embeddings
    /\ UNCHANGED << messages, titles, turn, caller, pc, params, localVars,
                    error, obsVars, outcome >>

\* ------------------------------------------------------------------------
\* Generation: grounded attempt, fallback, tool loop
\* ------------------------------------------------------------------------
\* the head of the for loop, reached with the latest response: another round
\* when round < maxToolRounds and the response's first call has a name,
\* else the loop is left and the reply is response.text ?? ""
LoopHead_OffByOne(resp, rnd) ==
    IF rnd <= maxToolRounds /\ HasCall(resp)
    THEN pc' = "executeTool" /\ reply' = reply
    ELSE pc' = "saveReply" /\ reply' = TextOf(resp)

LoopHead_DropTextAtCap(resp, rnd) ==
    IF rnd < maxToolRounds /\ HasCall(resp)
    THEN pc' = "executeTool" /\ reply' = reply
    ELSE /\ pc' = "saveReply"
         /\ reply' = IF HasCall(resp) THEN "" ELSE TextOf(resp)

LoopHead_StaleReply(resp, rnd) ==
    IF rnd < maxToolRounds /\ HasCall(resp)
    THEN pc' = "executeTool" /\ reply' = reply
    ELSE pc' = "saveReply" /\ reply' = reply

LoopHead(resp, rnd) ==
    IF rnd < maxToolRounds /\ HasCall(resp)
    THEN pc' = "executeTool" /\ reply' = reply
    ELSE pc' = "saveReply" /\ reply' = TextOf(resp)

\* if (!usedSearch) { tool loop }; const reply = response.text ?? ""
AfterGeneration_NoGuard(resp, used, rnd) == LoopHead(resp, rnd)

AfterGeneration(resp, used, rnd) ==
    IF ~used THEN LoopHead(resp, rnd)
    ELSE pc' = "saveReply" /\ reply' = TextOf(resp)

\* catch (searchErr) { usedSearch = false; response = await generateContent(
\* {config: toolConfig}) }
GroundedCatch_Retry == usedSearch' = FALSE /\ pc' = "grounded"

GroundedCatch == usedSearch' = FALSE /\ pc' = "fallback"

\* try { response = await generateContent({config: searchConfig}) }
\* catch { usedSearch = false; ... }
GroundedGenerate(ok, resp) ==
    /\ pc = "grounded"
    /\ UNCHANGED << turn, caller, outcome, rerankVars, splitVars, webhookVars, others >>
    /\ genLog' = Append(genLog, [site |-> "grounded",
                                 config |-> searchConfig(params.thinking)])
    /\ ioLog' = Append(ioLog, "generateContent:grounded")
    /\ IF ok
       THEN /\ response' = resp
            /\ usedSearch' = usedSearch
            /\ AfterGeneration(resp, usedSearch, round)
       ELSE /\ GroundedCatch
            /\ UNCHANGED << response, reply >>
    \* the retrieval locals, the attachments and the parts themselves (they
    \* stay in contents) are not read after the prompt is assembled
    /\ params' = [params EXCEPT !.imageBase64 = NoImage, !.file = NoFile]
    /\ profile' = NoProfile
    /\ queryEmbedding' = EmptyVec
    /\ rankedMatches' = <<>>
    /\ recentMessages' = <<>>
    /\ historySection' = NoHistory
    /\ isDupe' = FALSE
    /\ dupes' = NoDupes
    /\ parts' = <<>>
    /\ UNCHANGED << storeVars, userMsgId, contents, round, error,
                    toolExecs, lastTool, toolResult >>

\* response = await generateContent({config: toolConfig}) in the catch block
FallbackGenerate(ok, resp) ==
    /\ InRagChat("fallback")
    /\ genLog' = Append(genLog, [site |-> "fallback",
                                 config |-> toolConfig(params.thinking)])
    /\ ioLog' = Append(ioLog, "generateContent:tool")
    /\ IF ok
       THEN /\ response' = resp
            /\ AfterGeneration(resp, usedSearch, round)
            /\ error' = error
       ELSE /\ Throw(ErrGenerate)
            /\ UNCHANGED << response, reply >>
    /\ UNCHANGED << storeVars, profile, userMsgId, queryEmbedding,
                    rankedMatches, recentMessages, historySection, isDupe, dupes, parts,
                    contents, usedSearch, round, toolExecs, lastTool,
                    toolResult >>

\* ------------------------------------------------------------------------
\* executeTool (mcp-service.ts)
\* ------------------------------------------------------------------------
\* variant: the default branch raises instead of answering
ToolUnknown_Throws(name) == "<throws>"

ToolUnknown(name) == "Unknown tool: " \o name
ToolTime == "Current time"
ToolFound == "[1] ..."
ToolNotFound == "No relevant knowledge found."
ToolSearchDown == "Knowledge search is temporarily unavailable."
ToolNoteSaved == "Note saved successfully"
ToolNoteFailed == "Failed to save note. Please try again."
ToolNoRecent == "No recent conversations found."
ToolRecent == "[channel] User: ..."
ToolThrows == "<throws>"

ToolSearchThreshold == 60
ToolSearchCount == 5
ToolRecentLimit == 10

\* the text executeTool resolves to, or ToolThrows when it rejects;
\* embedOk and storeOk are the outcomes of the backend calls the tool makes
executeTool(toolName, arg, embedOk, storeOk) ==
    CASE toolName = "get_current_time" ->
            \* toLocaleString raises a RangeError for an invalid time zone
            IF arg = "Not/AZone" THEN ToolThrows ELSE ToolTime
      [] toolName = "search_knowledge" ->
            IF ~embedOk THEN ToolSearchDown
            ELSE IF Len(searchEmbeddings(embeddings, storeOk, arg,
                          ToolSearchThreshold, ToolSearchCount,
                          NoProfile)) = 0
                 THEN ToolNotFound ELSE ToolFound
      [] toolName = "save_note" ->
            IF embedOk /\ storeOk THEN ToolNoteSaved ELSE ToolNoteFailed
      [] toolName = "get_recent_conversations" ->
            IF Len(getRecentMessages(messages, storeOk, ToolRecentLimit,
                                     "<any>", NoConv)) = 0
            THEN ToolNoRecent ELSE ToolRecent
      [] OTHER -> ToolUnknown(toolName)

\* variant: the last call of the response is the one dispatched
fcOf_Last(resp) == resp.functionCalls[Len(resp.functionCalls)]

\* const fc = response.functionCalls?.[0]
fcOf(resp) == resp.functionCalls[1]

\* one round of the loop body up to the re-generation: the first call of the
\* latest response is executed and its result appended to contents
ExecuteTool(embedOk, storeOk) ==
    /\ InRagChat("executeTool")
    /\ LET fc == fcOf(response)
           result == executeTool(fc.name, fc.arg, embedOk, storeOk)
       IN  /\ toolExecs' = toolExecs + 1
           /\ lastTool' = fc
           /\ ioLog' = Append(ioLog, "executeTool")
           /\ embeddings' =
                IF fc.name = "save_note" /\ embedOk /\ storeOk
                THEN InsertEmbedding(embeddings,
                            EmbeddingRow(fc.arg, "mcp_save_note", NoProfile))
                ELSE embeddings
           /\ IF result = ToolThrows
              THEN /\ Throw(ErrTimeZone)
                   /\ UNCHANGED << toolResult, contents >>
              ELSE /\ toolResult' = result
                   /\ contents' = contents \o << "model", "functionResponse" >>
                   /\ pc' = "regenerate"
                   /\ error' = error
    /\ UNCHANGED << messages, titles, pendingStore, profile, userMsgId,
                    queryEmbedding, rankedMatches, recentMessages,
                    historySection, isDupe, dupes, parts, usedSearch, round, response,
                    reply, genLog >>

\* response = await generateContent({config: toolConfig}) inside the loop,
\* then round++ and the loop head
Regenerate(ok, resp) ==
    /\ InRagChat("regenerate")
    /\ genLog' = Append(genLog, [site |-> "loop",
                                 config |-> toolConfig(params.thinking)])
    /\ ioLog' = Append(ioLog, "generateContent:tool")
    /\ IF ok
       THEN /\ response' = resp
            /\ round' = round + 1
            /\ LoopHead(resp, round + 1)
            /\ error' = error
       ELSE /\ Throw(ErrGenerate)
            /\ UNCHANGED << response, round, reply >>
    \* the tool's result now lives in contents only
    /\ lastTool' = NoCall
    /\ toolResult' = ""
    /\ UNCHANGED << storeVars, profile, userMsgId, queryEmbedding,
                    rankedMatches, recentMessages, historySection, isDupe, dupes, parts,
                    contents, usedSearch, toolExecs >>

\* ------------------------------------------------------------------------
\* Persist the reply, title the conversation, return
\* ------------------------------------------------------------------------
TitleLimit == 40

\* variant: the cut title carries no ellipsis
TitleOf_NoEllipsis(message) ==
    IF Len(message) > TitleLimit
    THEN SubSeq(message, 1, TitleLimit)
    ELSE message

\* message.length > 40 ? message.slice(0, 40) + "..." : message
TitleOf(message) ==
    IF Len(message) > TitleLimit
    THEN SubSeq(message, 1, TitleLimit) \o "..."
    ELSE message

\* await saveMessage({role: "assistant", content: reply, ...})
SaveReply(ok) ==
    /\ InRagChat("saveReply")
    /\ ioLog' = Append(ioLog, "saveMessage:assistant")
    /\ IF ok
       THEN /\ messages' = saveMessage(messages,
                  MessageRow("assistant", reply, params.channel,
                             params.conversationId))
            /\ pc' = IF params.conversationId # NoConv THEN "updateTitle"
                     ELSE "returned"
            /\ error' = error
       ELSE /\ Throw(ErrSaveMessage)
            /\ messages' = messages
    /\ UNCHANGED << embeddings, titles, pendingStore, localVars, genLog,
                    toolExecs, lastTool, toolResult >>

\* variant: the title is derived from the first message of the table
UpdateTitle_FirstMessage(ok) ==
    /\ InRagChat("updateTitle")
    /\ ioLog' = Append(ioLog, "updateConversationTitle")
    /\ titles' = IF ok
                 THEN [titles EXCEPT ![params.conversationId] =
                          TitleOf(messages[1].content)]
                 ELSE titles
    /\ pc' = "returned"
    /\ UNCHANGED << messages, embeddings, pendingStore, localVars, error,
                    genLog, toolExecs, lastTool, toolResult >>

\* try { await updateConversationTitle(conversationId, title) } catch {}
UpdateTitle(ok) ==
    /\ InRagChat("updateTitle")
    /\ ioLog' = Append(ioLog, "updateConversationTitle")
    /\ titles' = IF ok
                 THEN [titles EXCEPT ![params.conversationId] =
                          TitleOf(params.message)]
                 ELSE titles
    /\ pc' = "returned"
    /\ UNCHANGED << messages, embeddings, pendingStore, localVars, error,
                    genLog, toolExecs, lastTool, toolResult >>

\* ------------------------------------------------------------------------
\* Specification: one request, from its arrival to the caller's answer
\* ------------------------------------------------------------------------
Next ==
    \/ \E req \in WebRequests : POST(req)
    \/ POSTRespond
    \/ \E ev \in DiscordEvents, typingOk \in BOOLEAN :
          MessageCreate(ev, typingOk)
    \/ \E sendOk, sorryOk \in BOOLEAN : MessageCreateRespond(sendOk, sorryOk)
    \/ \E ok \in BOOLEAN : GetDefaultProfile(ok)
    \/ \E ok \in BOOLEAN : SaveUserMessage(ok)
    \/ \E res \in {"ok", "empty", "fail"} : GenerateEmbedding(res)
    \/ \E searchOk, historyOk \in BOOLEAN : Retrieve(searchOk, historyOk)
    \/ \E ok \in BOOLEAN, text \in SummaryTexts :
          SummarizeHistory(ok, text)
    \/ \E ok \in BOOLEAN : Dedup(ok)
    \/ \E p \in pendingStore, ok \in BOOLEAN : StoreEmbeddingSettle(p, ok)
    \/ \E ok \in BOOLEAN, resp \in Responses : GroundedGenerate(ok, resp)
    \/ \E ok \in BOOLEAN, resp \in Responses : FallbackGenerate(ok, resp)
    \/ \E embedOk, storeOk \in BOOLEAN : ExecuteTool(embedOk, storeOk)
    \/ \E ok \in BOOLEAN, resp \in Responses : Regenerate(ok, resp)
    \/ \E ok \in BOOLEAN : SaveReply(ok)
    \/ \E ok \in BOOLEAN : UpdateTitle(ok)

Spec == Init /\ [][Next]_vars

\* ------------------------------------------------------------------------
\* Specification: requests served one after the other, starting from an
\* empty store; each request starts after the answer to the one before
\* ------------------------------------------------------------------------
MaxTurns == 2

SeqMessages == {"hello", "what time"}

SeqRequests ==
    [json : {TRUE}, message : SeqMessages, channel : {"web"},
     imageBase64 : {NoImage}, file : {NoFile}, conversationId : {"c1"},
     thinking : {FALSE}]

SeqResponses ==
    { [text |-> "answer", functionCalls |-> <<>>],
      [text |-> NoText,
       functionCalls |-> << [name |-> "get_current_time",
                             arg |-> "<default>"] >>] }

\* the route handler is entered again: a new invocation has its own locals
AcceptNext ==
    /\ UNCHANGED << rerankVars, splitVars, webhookVars, others >>
    /\ pc = "answered"
    /\ turn < MaxTurns
    /\ pc' = "idle"
    /\ caller' = "none"
    /\ params' = NoParams
    /\ profile' = NoProfile
    /\ userMsgId' = NoId
    /\ queryEmbedding' = EmptyVec
    /\ rankedMatches' = <<>>
    /\ recentMessages' = <<>>
    /\ historySection' = NoHistory
    /\ isDupe' = FALSE
    /\ dupes' = NoDupes
    /\ parts' = <<>>
    /\ contents' = <<>>
    /\ usedSearch' = TRUE
    /\ round' = 0
    /\ response' = NoResponse
    /\ reply' = ""
    /\ error' = NoError
    /\ genLog' = <<>>
    /\ toolExecs' = 0
    /\ lastTool' = NoCall
    /\ toolResult' = ""
    /\ ioLog' = <<>>
    /\ outcome' = NoOutcome
    /\ UNCHANGED << storeVars, turn >>

InitSeq ==
    /\ Init
    /\ messages = <<>>
    /\ embeddings = <<>>

NextSeq ==
    \/ \E req \in SeqRequests : POST(req)
    \/ POSTRespond
    \/ AcceptNext
    \/ \E ok \in BOOLEAN : GetDefaultProfile(ok)
    \/ \E ok \in BOOLEAN : SaveUserMessage(ok)
    \/ \E res \in {"ok", "empty", "fail"} : GenerateEmbedding(res)
    \/ \E searchOk, historyOk \in BOOLEAN : Retrieve(searchOk, historyOk)
    \/ \E ok \in BOOLEAN : Dedup(ok)
    \/ \E p \in pendingStore, ok \in BOOLEAN : StoreEmbeddingSettle(p, ok)
    \/ \E ok \in BOOLEAN, resp \in SeqResponses : GroundedGenerate(ok, resp)
    \/ \E ok \in BOOLEAN, resp \in SeqResponses : FallbackGenerate(ok, resp)
    \/ \E embedOk, storeOk \in BOOLEAN : ExecuteTool(embedOk, storeOk)
    \/ \E ok \in BOOLEAN, resp \in SeqResponses : Regenerate(ok, resp)
    \/ \E ok \in BOOLEAN : SaveReply(ok)
    \/ \E ok \in BOOLEAN : UpdateTitle(ok)

SpecSeq == InitSeq /\ [][NextSeq]_vars

\* ------------------------------------------------------------------------
\* Specification: one request under the assumption that every call ragChat
\* awaits (store, model backend, tool) eventually returns or fails. Each
\* step of ragChat is the settling of the call it awaits, so the steps of
\* ragChat are weakly fair; the arrival of a request, the caller's answer
\* and the settling of the detached memory write, which nothing awaits,
\* are not.
\* ------------------------------------------------------------------------
LiveRequests ==
    [json : {TRUE}, message : {"hello"}, channel : {"web"},
     imageBase64 : {NoImage}, file : {NoFile}, conversationId : ConvIds,
     thinking : {FALSE}]

RagChatStep ==
    \/ \E ok \in BOOLEAN : GetDefaultProfile(ok)
    \/ \E ok \in BOOLEAN : SaveUserMessage(ok)
    \/ \E res \in {"ok", "empty", "fail"} : GenerateEmbedding(res)
    \/ \E searchOk, historyOk \in BOOLEAN : Retrieve(searchOk, historyOk)
    \/ \E ok \in BOOLEAN, text \in SummaryTexts :
          SummarizeHistory(ok, text)
    \/ \E ok \in BOOLEAN : Dedup(ok)
    \/ \E ok \in BOOLEAN, resp \in Responses : GroundedGenerate(ok, resp)
    \/ \E ok \in BOOLEAN, resp \in Responses : FallbackGenerate(ok, resp)
    \/ \E embedOk, storeOk \in BOOLEAN : ExecuteTool(embedOk, storeOk)
    \/ \E ok \in BOOLEAN, resp \in Responses : Regenerate(ok, resp)
    \/ \E ok \in BOOLEAN : SaveReply(ok)
    \/ \E ok \in BOOLEAN : UpdateTitle(ok)

NextLive ==
    \/ \E req \in LiveRequests : POST(req)
    \/ POSTRespond
    \/ \E p \in pendingStore, ok \in BOOLEAN : StoreEmbeddingSettle(p, ok)
    \/ RagChatStep

SpecLive == Init /\ [][NextLive]_vars /\ WF_vars(RagChatStep)

\* ------------------------------------------------------------------------
\* Specification: one call of rerankResults on arbitrary arguments
\* ------------------------------------------------------------------------
MaxCandidates == 3

RerankContents == {"Time zones", "hello"}
RerankSources == {"user_message", "mcp_save_note"}
RerankSimilarities == {NoSim, 75}
RerankQueries == {"he to", "What TIME zones", "time\tzones"}

\* result lists of the vector search: the id of a row is its position
CandidateLists ==
    UNION { { [ j \in 1..k |->
                  [id |-> j, content |-> f[j].content,
                   source |-> f[j].source, similarity |-> f[j].similarity] ] :
              f \in [1..k -> [content : RerankContents,
                              source : RerankSources,
                              similarity : RerankSimilarities]] } :
            k \in 0..MaxCandidates }

InitRerank ==
    /\ AppInit
    /\ messages = <<>>
    /\ embeddings = <<>>
    /\ SplitIdle
    /\ WebhookIdle
    /\ OthersIdle
    /\ rrResults \in CandidateLists
    /\ rrQuery \in RerankQueries
    /\ rrMaxResults \in 0..MaxCandidates
    /\ rrOut = NotRun

RerankCall ==
    /\ rrOut = NotRun
    /\ rrOut' = Ran(rerankResults(rrResults, rrQuery, rrMaxResults))
    /\ UNCHANGED << appVars, splitVars, webhookVars, others, rrResults, rrQuery, rrMaxResults >>

NextRerank == RerankCall

SpecRerank == InitRerank /\ [][NextRerank]_vars

\* ------------------------------------------------------------------------
\* splitMessage and the delivery loop (discord-service)
\* ------------------------------------------------------------------------
\* String.prototype.lastIndexOf(ch, fromIndex), indices from 0, -1 if none
lastIndexOf(t, ch, fromIndex) ==
    LET last == IF fromIndex < Len(t) - 1 THEN fromIndex ELSE Len(t) - 1
        found == { i \in 0..last : SubSeq(t, i + 1, i + 1) = ch }
    IN  IF found = {} THEN -1
        ELSE CHOOSE i \in found : \A j \in found : j <= i

\* String.prototype.substring(start, end) and substring(start), indices from 0
substring(t, start, end) == SubSeq(t, start + 1, end)
substringFrom(t, start) == SubSeq(t, start + 1, Len(t))

\* variant: a newline or a space is taken wherever it is within the limit
splitIdxOf_NoHalf(remaining, maxLength) ==
    LET newline == lastIndexOf(remaining, "\n", maxLength)
        space == IF newline = -1
                 THEN lastIndexOf(remaining, " ", maxLength)
                 ELSE newline
    IN  IF space = -1 THEN maxLength ELSE space

\* variant: a space is taken wherever it is within the limit
splitIdxOf_AnySpace(remaining, maxLength) ==
    LET newline == lastIndexOf(remaining, "\n", maxLength)
        space == IF newline = -1 \/ 2 * newline < maxLength
                 THEN lastIndexOf(remaining, " ", maxLength)
                 ELSE newline
    IN  IF space = -1 THEN maxLength ELSE space

\* splitIdx of one iteration: the last newline, else the last space, each
\* only when not before half of maxLength, else maxLength
splitIdxOf(remaining, maxLength) ==
    LET newline == lastIndexOf(remaining, "\n", maxLength)
        space == IF newline = -1 \/ 2 * newline < maxLength
                 THEN lastIndexOf(remaining, " ", maxLength)
                 ELSE newline
    IN  IF space = -1 \/ 2 * space < maxLength THEN maxLength ELSE space

RECURSIVE splitLoop_DropTail(_, _, _)
\* variant: what remains after the last cut is not pushed
splitLoop_DropTail(remaining, maxLength, chunks) ==
    IF Len(remaining) > maxLength
    THEN LET splitIdx == splitIdxOf(remaining, maxLength)
         IN  splitLoop_DropTail(TrimStart(substringFrom(remaining, splitIdx)),
                                maxLength,
                                Append(chunks,
                                       substring(remaining, 0, splitIdx)))
    ELSE chunks

RECURSIVE splitLoop(_, _, _)
\* the while loop and the final push
splitLoop(remaining, maxLength, chunks) ==
    IF Len(remaining) > maxLength
    THEN LET splitIdx == splitIdxOf(remaining, maxLength)
         IN  splitLoop(TrimStart(substringFrom(remaining, splitIdx)),
                       maxLength,
                       Append(chunks, substring(remaining, 0, splitIdx)))
    ELSE IF Len(remaining) > 0 THEN Append(chunks, remaining)
    ELSE chunks

splitMessage(text, maxLength) == splitLoop(text, maxLength, <<>>)

\* ------------------------------------------------------------------------
\* Specification: one text is split and its chunks are sent
\* ------------------------------------------------------------------------
MaxTextLen == 5
MaxLimit == 4

SplitAlphabet == {"a", "b", " ", "\n"}

RECURSIVE TextsUpTo(_)
TextsUpTo(n) ==
    IF n = 0 THEN {""}
    ELSE LET shorter == TextsUpTo(n - 1)
         IN  shorter \cup { t \o c : t \in shorter, c \in SplitAlphabet }

InitSplit ==
    /\ AppInit
    /\ RerankIdle
    /\ WebhookIdle
    /\ OthersIdle
    /\ smText \in TextsUpTo(MaxTextLen)
    /\ smMaxLength \in 1..MaxLimit
    /\ smChunks = NotRun
    /\ smSent = <<>>

\* const chunks = splitMessage(text, maxLength)
SplitCall ==
    /\ ~smChunks.run
    /\ smChunks' = Ran(splitMessage(smText, smMaxLength))
    /\ UNCHANGED << appVars, rerankVars, webhookVars, others, smText, smMaxLength, smSent >>

\* for (const chunk of chunks) await channel.send(chunk): one iteration;
\* a send that rejects ends the loop
SendChunk(ok) ==
    /\ smChunks.run
    /\ Len(smSent) < Len(smChunks.value)
    /\ \A i \in 1..Len(smSent) : smSent[i].ok
    /\ smSent' = Append(smSent, [chunk |-> smChunks.value[Len(smSent) + 1],
                                 ok |-> ok])
    /\ UNCHANGED << appVars, rerankVars, webhookVars, others, smText, smMaxLength, smChunks >>

NextSplit ==
    \/ SplitCall
    \/ \E ok \in BOOLEAN : SendChunk(ok)

SpecSplit == InitSplit /\ [][NextSplit]_vars

\* ------------------------------------------------------------------------
\* Meta webhook: POST handler (api/webhook/meta/route.ts) and
\* verifySignature, parseMetaWebhook, the reply senders (meta-service)
\* ------------------------------------------------------------------------
NoSignature == "<null>"          \* the x-hub-signature-256 header is absent
NoSecret == "<undefined>"        \* META_APP_SECRET is not set
AppSecret == "s3cret"

RawBadJson == "{"
RawNoMessages == "{\"object\":\"page\",\"entry\":[]}"
RawText == "{\"object\":\"page\",\"entry\":[{\"messaging\":[hello]}]}"
RawImage == "{\"object\":\"whatsapp_business_account\",\"entry\":[image]}"
RawTwo == "{\"object\":\"page\",\"entry\":[{\"messaging\":[hello,what time]}]}"
RawBodies == {RawBadJson, RawNoMessages, RawText, RawImage, RawTwo}

\* crypto.createHmac("sha256", secret).update(rawBody).digest("hex"); the
\* digests of different bodies differ and have the same length
HmacHex(secret, rawBody) ==
    CASE rawBody = RawBadJson -> "1b2e5a07"
      [] rawBody = RawNoMessages -> "9c41d3f0"
      [] rawBody = RawText -> "44aa0c6e"
      [] rawBody = RawImage -> "e07f1182"
      [] OTHER -> "5d93b6c4"

\* variant: a signature of the expected length passes
verifySignature_LengthOnly(rawBody, signature, secret) ==
    IF signature = NoSignature \/ signature = "" \/ secret = NoSecret
    THEN "false"
    ELSE LET expectedSignature == "sha256=" \o HmacHex(secret, rawBody)
         IN  IF Len(signature) # Len(expectedSignature) THEN "throws"
             ELSE "true"

\* verifySignature: "true", "false", or "throws" when timingSafeEqual is
\* given buffers of different lengths
verifySignature(rawBody, signature, secret) ==
    IF signature = NoSignature \/ signature = "" \/ secret = NoSecret
    THEN "false"
    ELSE LET expectedSignature == "sha256=" \o HmacHex(secret, rawBody)
         IN  IF Len(signature) # Len(expectedSignature) THEN "throws"
             ELSE IF signature = expectedSignature THEN "true"
             ELSE "false"

\* the signatures a request can carry: none, an empty one, one of another
\* length, one of the right length for another body or with another key,
\* and, when the secret is set, the one Meta computes
SignaturesFor(rawBody, secret) ==
    {NoSignature, "", "sha256=", "sha1=44aa0c6e", "sha256=00000000",
     "sha256=" \o HmacHex(AppSecret, RawNoMessages),
     "sha256=" \o HmacHex(AppSecret, RawText)}
    \cup (IF secret # NoSecret
          THEN {"sha256=" \o HmacHex(secret, rawBody)} ELSE {})

WebhookRequests ==
    { r \in [env : {"production", "development"},
             appSecret : {AppSecret, NoSecret},
             signature : {NoSignature, "", "sha256=", "sha1=44aa0c6e",
                          "sha256=00000000"}
                         \cup { "sha256=" \o HmacHex(AppSecret, b) :
                                   b \in RawBodies },
             rawBody : RawBodies] :
        /\ r.signature \in SignaturesFor(r.rawBody, r.appSecret)
        /\ r.env = "development" =>
              /\ r.appSecret = AppSecret
              /\ r.signature \in {NoSignature, "sha256=00000000"} }

\* JSON.parse(rawBody) throws
ParseThrows(rawBody) == rawBody = RawBadJson

\* parseMetaWebhook(JSON.parse(rawBody))
parseMetaWebhook(rawBody) ==
    CASE rawBody = RawText ->
            << [senderId |-> "u1", text |-> "hello", channel |-> "messenger"] >>
      [] rawBody = RawImage ->
            << [senderId |-> "84900", text |-> NoText,
                channel |-> "whatsapp"] >>
      [] rawBody = RawTwo ->
            << [senderId |-> "u1", text |-> "hello", channel |-> "messenger"],
               [senderId |-> "u1", text |-> "what time",
                channel |-> "messenger"] >>
      [] OTHER -> <<>>

WebhookAnswer(status, text) ==
    [kind |-> "http", status |-> status, text |-> text, messageId |-> NoId]

\* ragChat({message: msg.text ?? "[Image received]", channel: msg.channel})
WebhookParams(msg) ==
    [message |-> IF msg.text = NoText THEN "[Image received]" ELSE msg.text,
     channel |-> msg.channel, imageBase64 |-> NoImage, file |-> NoFile,
     conversationId |-> NoConv, thinking |-> FALSE]

\* POST up to the first call of ragChat
WebhookPOST(req) ==
    /\ pc = "idle"
    /\ turn' = turn + 1
    /\ caller' = "webhook"
    /\ whReq' = req
    /\ whSends' = whSends
    /\ UNCHANGED << storeVars, rerankVars, splitVars, others >>
    /\ LET verified == IF req.env = "production"
                       THEN verifySignature(req.rawBody, req.signature,
                                            req.appSecret)
                       ELSE "skipped"
       IN  IF verified = "throws"
           THEN /\ outcome' = WebhookAnswer(200, "error")
                /\ pc' = "answered"
                /\ whQueue' = whQueue
                /\ UNCHANGED << params, localVars, obsVars, error >>
           ELSE IF verified = "false"
           THEN /\ outcome' = WebhookAnswer(401, "Invalid signature")
                /\ pc' = "answered"
                /\ whQueue' = whQueue
                /\ UNCHANGED << params, localVars, obsVars, error >>
           ELSE IF ParseThrows(req.rawBody)
           THEN /\ outcome' = WebhookAnswer(200, "error")
                /\ pc' = "answered"
                /\ whQueue' = whQueue
                /\ UNCHANGED << params, localVars, obsVars, error >>
           ELSE IF Len(parseMetaWebhook(req.rawBody)) = 0
           THEN /\ outcome' = WebhookAnswer(200, "ok")
                /\ pc' = "answered"
                /\ whQueue' = whQueue
                /\ UNCHANGED << params, localVars, obsVars, error >>
           ELSE /\ outcome' = outcome
                /\ whQueue' = parseMetaWebhook(req.rawBody)
                /\ EnterRagChat(WebhookParams(parseMetaWebhook(req.rawBody)[1]))

\* after ragChat returned for the first message of the queue: the reply is
\* sent (the senders report a failure, they do not throw), then ragChat is
\* called for the next message with locals and observations of its own, or
\* the handler answers
WebhookReply(sendOk) ==
    /\ caller = "webhook"
    /\ pc = "returned"
    /\ whSends' = Append(whSends, [channel |-> whQueue[1].channel,
                                   to |-> whQueue[1].senderId,
                                   text |-> reply, ok |-> sendOk])
    /\ whQueue' = Tail(whQueue)
    /\ UNCHANGED << storeVars, turn, caller, whReq, rerankVars, splitVars,
                    others >>
    /\ IF Len(whQueue) = 1
       THEN /\ outcome' = WebhookAnswer(200, "ok")
            /\ pc' = "answered"
            /\ UNCHANGED << params, localVars, obsVars, error >>
       ELSE /\ outcome' = outcome
            /\ params' = WebhookParams(whQueue[2])
            /\ pc' = "getDefaultProfile"
            /\ profile' = NoProfile
            /\ userMsgId' = NoId
            /\ queryEmbedding' = EmptyVec
            /\ rankedMatches' = <<>>
            /\ recentMessages' = <<>>
            /\ historySection' = NoHistory
            /\ isDupe' = FALSE
            /\ dupes' = NoDupes
            /\ parts' = <<>>
            /\ contents' = <<>>
            /\ usedSearch' = TRUE
            /\ round' = 0
            /\ response' = NoResponse
            /\ reply' = ""
            /\ error' = NoError
            /\ genLog' = <<>>
            /\ toolExecs' = 0
            /\ lastTool' = NoCall
            /\ toolResult' = ""
            /\ ioLog' = <<>>

\* the catch block: ragChat threw, the rest of the queue is dropped
WebhookCatch ==
    /\ caller = "webhook"
    /\ pc = "threw"
    /\ outcome' = WebhookAnswer(200, "error")
    /\ pc' = "answered"
    /\ UNCHANGED << storeVars, turn, caller, params, localVars, obsVars,
                    error, rerankVars, splitVars, webhookVars, others >>

\* ------------------------------------------------------------------------
\* Specification: one request to the Meta webhook, on an empty store
\* ------------------------------------------------------------------------
InitWebhook ==
    /\ Init
    /\ messages = <<>>
    /\ embeddings = <<>>

NextWebhook ==
    \/ \E req \in WebhookRequests : WebhookPOST(req)
    \/ \E sendOk \in BOOLEAN : WebhookReply(sendOk)
    \/ WebhookCatch
    \/ \E ok \in BOOLEAN : GetDefaultProfile(ok)
    \/ \E ok \in BOOLEAN : SaveUserMessage(ok)
    \/ \E res \in {"ok", "empty", "fail"} : GenerateEmbedding(res)
    \/ \E searchOk, historyOk \in BOOLEAN : Retrieve(searchOk, historyOk)
    \/ \E ok \in BOOLEAN : Dedup(ok)
    \/ \E p \in pendingStore, ok \in BOOLEAN : StoreEmbeddingSettle(p, ok)
    \/ \E ok \in BOOLEAN, resp \in SeqResponses : GroundedGenerate(ok, resp)
    \/ \E ok \in BOOLEAN, resp \in SeqResponses : FallbackGenerate(ok, resp)
    \/ \E embedOk, storeOk \in BOOLEAN : ExecuteTool(embedOk, storeOk)
    \/ \E ok \in BOOLEAN, resp \in SeqResponses : Regenerate(ok, resp)
    \/ \E ok \in BOOLEAN : SaveReply(ok)

SpecWebhook == InitWebhook /\ [][NextWebhook]_vars

\* ------------------------------------------------------------------------
\* Specification: one request followed step by step while other invocations
\* of ragChat run beside it on the same store; of the others only the two
\* saveMessage calls are followed
\* ------------------------------------------------------------------------
MaxOthers == 1

OtherParams ==
    { [message |-> "hi", channel |-> "discord", conversationId |-> NoConv],
      [message |-> "hello", channel |-> "web", conversationId |-> "c1"] }

\* another invocation reaches its saveMessage({role: "user", ...})
OtherSaveUser(p, ok) ==
    /\ Len(others) < MaxOthers
    /\ others' = Append(others, [params |-> p,
                                 stage |-> IF ok THEN "userSaved"
                                           ELSE "threw"])
    /\ messages' = IF ok
                   THEN saveMessage(messages,
                           MessageRow("user", p.message, p.channel,
                                      p.conversationId))
                   ELSE messages
    /\ UNCHANGED << embeddings, titles, pendingStore, turn, caller, pc,
                    params, localVars, obsVars, error, outcome, rerankVars,
                    splitVars, webhookVars >>

\* another invocation fails after its user row was saved (ok = FALSE), or
\* reaches its saveMessage({role: "assistant", ...})
OtherSaveReply(i, ok) ==
    /\ i \in 1..Len(others)
    /\ others[i].stage = "userSaved"
    /\ others' = [others EXCEPT ![i].stage = IF ok THEN "returned"
                                             ELSE "threwAfterSave"]
    /\ messages' = IF ok
                   THEN saveMessage(messages,
                           MessageRow("assistant", "answer",
                                      others[i].params.channel,
                                      others[i].params.conversationId))
                   ELSE messages
    /\ UNCHANGED << embeddings, titles, pendingStore, turn, caller, pc,
                    params, localVars, obsVars, error, outcome, rerankVars,
                    splitVars, webhookVars >>

InitInterleave ==
    /\ Init
    /\ messages = <<>>
    /\ embeddings = <<>>

NextInterleave ==
    \/ \E req \in SeqRequests : POST(req)
    \/ POSTRespond
    \/ \E p \in OtherParams, ok \in BOOLEAN : OtherSaveUser(p, ok)
    \/ \E i \in 1..MaxOthers, ok \in BOOLEAN : OtherSaveReply(i, ok)
    \/ \E ok \in BOOLEAN : GetDefaultProfile(ok)
    \/ \E ok \in BOOLEAN : SaveUserMessage(ok)
    \/ \E res \in {"ok", "empty", "fail"} : GenerateEmbedding(res)
    \/ \E searchOk, historyOk \in BOOLEAN : Retrieve(searchOk, historyOk)
    \/ \E ok \in BOOLEAN : Dedup(ok)
    \/ \E p \in pendingStore, ok \in BOOLEAN : StoreEmbeddingSettle(p, ok)
    \/ \E ok \in BOOLEAN, resp \in SeqResponses : GroundedGenerate(ok, resp)
    \/ \E ok \in BOOLEAN, resp \in SeqResponses : FallbackGenerate(ok, resp)
    \/ \E embedOk, storeOk \in BOOLEAN : ExecuteTool(embedOk, storeOk)
    \/ \E ok \in BOOLEAN, resp \in SeqResponses : Regenerate(ok, resp)
    \/ \E ok \in BOOLEAN : SaveReply(ok)
    \/ \E ok \in BOOLEAN : UpdateTitle(ok)

SpecInterleave == InitInterleave /\ [][NextInterleave]_vars

\* ------------------------------------------------------------------------
\* Specification: one request followed step by step while another invocation
\* of ragChat, for the same owner, reaches its dedup check and issues its
\* memory write at any point in between; both work on the same memory store,
\* which starts empty
\* ------------------------------------------------------------------------
RaceParams ==
    { [message |-> "hello", channel |-> "web", conversationId |-> "c1"],
      [message |-> "what time", channel |-> "web", conversationId |-> "c1"] }

\* another invocation runs isDuplicateEmbedding(queryEmbedding, profile?.id)
\* and, unless the search found an item, calls storeEmbedding without await
OtherDedup(p, ok) ==
    /\ Len(others) < MaxOthers
    /\ LET dupe == isDuplicateEmbedding(embeddings, ok, p.message, ProfileId)
       IN  /\ others' = Append(others,
                            [params |-> p,
                             stage |-> IF ~ok THEN "searchFailed"
                                       ELSE IF dupe THEN "skipped"
                                       ELSE "authorised"])
           /\ pendingStore' =
                IF dupe THEN pendingStore
                ELSE pendingStore \cup
                       { [turn |-> 0 - Len(others'),
                          row |-> EmbeddingRow(p.message, "user_message",
                                               ProfileId)] }
    /\ UNCHANGED << messages, embeddings, titles, turn, caller, pc, params,
                    localVars, obsVars, error, outcome, rerankVars,
                    splitVars, webhookVars >>

NextRace ==
    \/ \E req \in SeqRequests : POST(req)
    \/ POSTRespond
    \/ \E p \in RaceParams, ok \in BOOLEAN : OtherDedup(p, ok)
    \/ \E ok \in BOOLEAN : GetDefaultProfile(ok)
    \/ \E ok \in BOOLEAN : SaveUserMessage(ok)
    \/ \E res \in {"ok", "empty", "fail"} : GenerateEmbedding(res)
    \/ \E searchOk, historyOk \in BOOLEAN : Retrieve(searchOk, historyOk)
    \/ \E ok \in BOOLEAN : Dedup(ok)
    \/ \E p \in pendingStore, ok \in BOOLEAN : StoreEmbeddingSettle(p, ok)
    \/ \E ok \in BOOLEAN, resp \in SeqResponses : GroundedGenerate(ok, resp)
    \/ \E ok \in BOOLEAN, resp \in SeqResponses : FallbackGenerate(ok, resp)
    \/ \E embedOk, storeOk \in BOOLEAN : ExecuteTool(embedOk, storeOk)
    \/ \E ok \in BOOLEAN, resp \in SeqResponses : Regenerate(ok, resp)
    \/ \E ok \in BOOLEAN : SaveReply(ok)
    \/ \E ok \in BOOLEAN : UpdateTitle(ok)

SpecRace == InitInterleave /\ [][NextRace]_vars

TypeOK ==
    /\ pc \in {"idle", "getDefaultProfile", "saveUserMessage",
               "generateEmbedding", "retrieve", "summarizeHistory", "dedup",
               "grounded", "fallback", "executeTool", "regenerate",
               "saveReply", "updateTitle", "returned", "threw", "answered"}
    /\ round \in 0..maxToolRounds
    /\ toolExecs \in 0..maxToolRounds
    /\ response \in Responses

\* ------------------------------------------------------------------------
\* Observations used by the properties
\* ------------------------------------------------------------------------
IsMainPath(e) == e.site # "summary"
IsToolMode(e) == e.site \in {"fallback", "loop"}
IsGrounded(e) == e.site = "grounded"

MainRequests == SelectSeq(genLog, IsMainPath)
ToolModeRequests == Len(SelectSeq(genLog, IsToolMode))
GroundedRequests == Len(SelectSeq(genLog, IsGrounded))

AfterLoop == pc \in {"saveReply", "updateTitle", "returned"}

UserRow == MessageRow("user", params.message, params.channel,
                      params.conversationId)
AssistantRow == MessageRow("assistant", reply, params.channel,
                           params.conversationId)

\* ------------------------------------------------------------------------
\* Properties
\* ------------------------------------------------------------------------

\* C1: in tool mode, whatever the model answers, one ragChat invocation
\* executes at most maxToolRounds tools and issues at most 1 + maxToolRounds
\* tool-mode generation requests; once maxToolRounds rounds are done the loop
\* is left and the invocation goes on to persist the reply.
C1_ToolLoopBounded ==
    /\ toolExecs <= maxToolRounds
    /\ ToolModeRequests <= 1 + maxToolRounds
    /\ round <= maxToolRounds
    /\ round = maxToolRounds => pc \notin {"executeTool", "regenerate"}

C1_Witness ==
    /\ pc = "saveReply"
    /\ toolExecs = maxToolRounds
    /\ ToolModeRequests = 1 + maxToolRounds
    /\ HasCall(response)

\* C2: whenever the tool loop has completed at least one round, the reply
\* ragChat returns is not empty.
C2_ReplyNonEmptyAfterRound ==
    (pc = "returned" /\ ~usedSearch /\ round >= 1) => reply # ""

C5_ExactlyOneCapability ==
    LET main == MainRequests
    IN  /\ \A i \in 1..Len(main) :
              main[i].config.googleSearch
                  <=> (main[i].config.functionDeclarations = {})
        /\ \A i \in 1..Len(main) :
              main[i].config.functionDeclarations \in {{}, MCP_TOOLS}
        /\ \A i, j \in 1..Len(main) :
              (IsToolMode(main[i]) /\ IsToolMode(main[j]))
                  => main[i].config = main[j].config

C5_Witness ==
    /\ ToolModeRequests >= 2
    /\ params.thinking
    /\ MainRequests[1].config.googleSearch
    /\ MainRequests[3].config.functionDeclarations = MCP_TOOLS

\* C6: when the round cap is reached while the latest response still carries
\* a tool call, no error is raised: the pending call is not executed, the
\* last response's text is the reply, and the reply is persisted and
\* returned as usual.
C6_CapReachedIsNotAnError ==
    (~usedSearch /\ round = maxToolRounds /\ HasCall(response)) =>
        /\ pc \in {"saveReply", "updateTitle", "returned", "threw", "answered"}
        /\ toolExecs = maxToolRounds
        /\ reply = (IF response.text = NoText THEN "" ELSE response.text)
        /\ error \in {NoError, ErrSaveMessage}
        /\ pc \in {"updateTitle", "returned"} =>
              /\ error = NoError
              /\ messages[Len(messages)] = AssistantRow

C6_Witness ==
    /\ ~usedSearch
    /\ round = maxToolRounds
    /\ HasCall(response)
    /\ pc = "returned"
    /\ reply = "answer"

\* C7: in a tool-mode turn whose first tool-mode response carries one tool
\* call and whose second response carries none, exactly one tool is
\* executed, exactly two tool-mode requests are issued and the second
\* response's text is the reply.
C7_OneCallThenText ==
    [][ ( /\ pc = "regenerate"
          /\ round = 0
          /\ Len(response.functionCalls) = 1
          /\ pc' # "threw"
          /\ Len(response'.functionCalls) = 0 )
        => ( /\ pc' = "saveReply"
             /\ toolExecs' = 1
             /\ ToolModeRequests' = 2
             /\ reply' = IF response'.text = NoText THEN ""
                         ELSE response'.text ) ]_vars

C7_Witness ==
    /\ pc = "saveReply"
    /\ ~usedSearch
    /\ round = 1
    /\ toolExecs = 1
    /\ ToolModeRequests = 2
    /\ ~HasCall(response)
    /\ reply = "answer"

\* C8: a failure of the embedding request or of the vector search never
\* makes ragChat fail: retrieval yields no candidate and the invocation goes
\* on to generation.
C8_RetrievalFailureIsSwallowed ==
    pc = "threw" => error # ErrEmbed

\* C9: the inbound user message is persisted before any embedding, search or
\* generation request of the turn, and no later step removes or changes it.
C9_StateInv ==
    (\E i \in 1..Len(ioLog) :
        ioLog[i] \in {"embedContent", "searchEmbeddings", "dedupSearch",
                      "generateContent:summary", "generateContent:grounded",
                      "generateContent:tool", "executeTool"})
    => /\ userMsgId \in 1..Len(messages)
       /\ messages[userMsgId] = UserRow

C9_InboundPersistedFirstAndKept ==
    /\ []C9_StateInv
    /\ [][ /\ Len(messages') >= Len(messages)
           /\ \A i \in 1..Len(messages) : messages'[i] = messages[i] ]_vars

C9_Witness ==
    /\ pc = "answered"
    /\ error = ErrGenerate
    /\ userMsgId \in 1..Len(messages)
    /\ messages[userMsgId] = UserRow

\* C10: when the grounded request and then a tool-mode request fail, ragChat
\* fails, its caller answers with a generic failure message, and neither an
\* assistant message nor a conversation title is written for the turn.
C10_GenerationFailureIsGeneric ==
    (pc = "answered" /\ error = ErrGenerate) =>
        /\ outcome.kind = "http" => outcome.text = ErrUnexpected
        /\ outcome.kind = "discord" => outcome.text = DiscordSorry
        /\ messages[Len(messages)] = UserRow
        /\ \A c \in DOMAIN titles : titles[c] = "old title"

\* C11: executeTool resolves to a text for every tool name, argument and
\* backend failure and never rejects, so the step that executes a tool always
\* hands a result to the next generation request and ragChat does not fail
\* there.
C11_ToolNeverRaises ==
    [][ (pc = "executeTool" /\ toolExecs' # toolExecs)
        => (pc' = "regenerate" /\ error' = NoError) ]_vars

\* C12: for a tool name outside the declared capabilities executeTool
\* resolves to the text "Unknown tool: <name>", nothing is raised, and the
\* loop appends that text as the function response and goes on to the next
\* generation request.
C12_UnknownToolIsFedBack ==
    [][ (/\ pc = "executeTool"
         /\ toolExecs' # toolExecs
         /\ response.functionCalls[1].name \notin MCP_TOOLS)
        => /\ toolResult' = "Unknown tool: " \o response.functionCalls[1].name
           /\ contents' = contents \o << "model", "functionResponse" >>
           /\ pc' = "regenerate"
           /\ error' = NoError ]_vars

C12_Witness ==
    /\ pc = "regenerate"
    /\ lastTool.name = "lookup_weather"
    /\ toolResult = "Unknown tool: lookup_weather"
    /\ contents[Len(contents)] = "functionResponse"

\* C13: a ragChat invocation that returns hands back as messageId the id of
\* the row written for its own inbound user message: the row before the
\* assistant reply it appended last, never the reply's row and never a row
\* that was in the table before the invocation.
C13_MessageIdIsInboundRow ==
    /\ pc = "returned" =>
        /\ ragChatResult.messageId = Len(messages) - 1
        /\ messages[ragChatResult.messageId] = UserRow
        /\ messages[Len(messages)] = AssistantRow
    /\ (pc = "answered" /\ outcome.kind = "http" /\ outcome.status = 200) =>
        /\ outcome.messageId = Len(messages) - 1
        /\ messages[outcome.messageId] = UserRow

C13_Witness ==
    /\ pc = "answered"
    /\ outcome.kind = "http"
    /\ outcome.status = 200
    /\ Len(messages) > 2
    /\ outcome.messageId = Len(messages) - 1
    /\ messages[outcome.messageId].role = "user"

\* C14: the dedup guard answers true exactly when its search, run at
\* threshold 0.95 with a cap of one result and scoped to the owner, gave an
\* item; it answers false when the search gave none or failed, and the memory
\* write is issued exactly when it answers false.
C14_GuardFollowsSearch ==
    [][ (pc = "dedup" /\ ioLog' # ioLog) =>
          LET hit == \E i \in 1..Len(embeddings) :
                       /\ Sim(queryEmbedding, embeddings[i].content) >= 95
                       /\ profile # NoProfile
                            => embeddings[i].owner = profile
          IN  /\ Len(dupes'.items) <= 1
              /\ ~dupes'.failed => (Len(dupes'.items) = 1 <=> hit)
              /\ dupes'.failed => ~isDupe'
              /\ isDupe' <=> Len(dupes'.items) >= 1
              /\ ~isDupe' <=> pendingStore' # pendingStore ]_vars

\* the search failed although the store holds a match: storing is authorised
C14_Witness ==
    /\ pc = "grounded"
    /\ dupes.failed
    /\ ~isDupe
    /\ pendingStore # {}
    /\ \E i \in 1..Len(embeddings) : embeddings[i].content = params.message

\* C16: the memory write of the inbound message is detached from the reply
\* path: when it settles, with success or with failure, ragChat's position,
\* reply, messageId, error and the caller's answer stay as they are, and
\* ragChat leaves the dedup step without waiting for it.
C16_MemoryWriteIsDetached ==
    [][ /\ (pendingStore' # pendingStore /\ pc # "dedup")
           => /\ pc' = pc
              /\ reply' = reply
              /\ userMsgId' = userMsgId
              /\ error' = error
              /\ outcome' = outcome
              /\ messages' = messages
              /\ titles' = titles
        /\ (pc = "dedup" /\ ioLog' # ioLog)
           => (pc' = "grounded" /\ error' = NoError) ]_vars

\* ragChat has returned and its caller has answered while the write is
\* still in flight
C16_Witness ==
    /\ pc = "answered"
    /\ outcome.kind = "http"
    /\ outcome.status = 200
    /\ \E p \in pendingStore : p.row.content = params.message

\* the stage of the pipeline a backend call belongs to
StageOf(call) ==
    CASE call = "getDefaultProfile" -> 0
      [] call = "saveMessage:user" -> 1
      [] call = "embedContent" -> 2
      [] call \in {"searchEmbeddings", "getRecentMessages"} -> 3
      [] call = "generateContent:summary" -> 4
      [] call \in {"dedupSearch", "storeEmbedding"} -> 5
      [] call \in {"generateContent:grounded", "generateContent:tool",
                   "executeTool"} -> 6
      [] call = "saveMessage:assistant" -> 7
      [] call = "updateConversationTitle" -> 8

Called(call) == \E i \in 1..Len(ioLog) : ioLog[i] = call

LineOf(m) == [label |-> IF m.role = "user" THEN "User" ELSE "Assistant",
              content |-> m.content]

\* the fetched history is a run of rows of the table, oldest first
FetchedOldestFirst ==
    /\ \A j \in 1..Len(recentMessages) :
          /\ recentMessages[j].id \in 1..Len(messages)
          /\ messages[recentMessages[j].id].content = recentMessages[j].content
          /\ messages[recentMessages[j].id].role = recentMessages[j].role
    /\ \A j, k \in 1..Len(recentMessages) :
          j < k => recentMessages[j].id < recentMessages[k].id

C19_LongHistorySplit ==
    (pc = "dedup" /\ Len(recentMessages) > 8) =>
        LET n == Len(recentMessages)
            older == historySection.summary.of
            recent == historySection.lines
        IN  /\ historySection.kind = "summarized"
            /\ genLog[Len(genLog)].site = "summary"
            /\ FetchedOldestFirst
            /\ Len(older) = n - 5
            /\ \A j \in 1..(n - 5) : older[j] = LineOf(recentMessages[j])
            /\ Len(recent) = 5
            /\ \A j \in 1..5 : recent[j] = LineOf(recentMessages[n - 5 + j])
            /\ Len(older) + Len(recent) = n

C19_Witness ==
    /\ pc = "dedup"
    /\ Len(recentMessages) > 8
    /\ historySection.kind = "summarized"
    /\ historySection.summary.text = "summary"
    /\ historySection.lines[5].content = params.message

\* C20: when the summarization request fails, the summary is the tail of the
\* older segment's transcript, its last 500 characters or all of it when it
\* is shorter, and ragChat goes on to the dedup check and to generation
\* without failing.
C20_SummaryFallsBackToTail ==
    [][ (pc = "summarizeHistory" /\ ioLog' # ioLog) =>
          LET transcript ==
                Transcript(SubSeq(recentMessages, 1, Len(recentMessages) - 5))
              summary == historySection'.summary
          IN  /\ pc' = "dedup"
              /\ error' = NoError
              /\ summary.src = "tail" =>
                   /\ Len(summary.text) <= 500
                   /\ Len(summary.text) =
                        IF Len(transcript) > 500 THEN 500 ELSE Len(transcript)
                   /\ summary.text =
                        SubSeq(transcript,
                               Len(transcript) - Len(summary.text) + 1,
                               Len(transcript)) ]_vars

\* the request failed on a transcript longer than 500 characters and the
\* invocation went on
C20_Witness ==
    /\ pc = "grounded"
    /\ historySection.kind = "summarized"
    /\ historySection.summary.src = "tail"
    /\ Len(historySection.summary.text) = 500
    /\ Len(JoinLines(historySection.summary.of)) > 500

\* the invocation before this one returned, and its inbound text was the
\* text of this one
PrevReturnedSameText ==
    /\ userMsgId >= 3
    /\ messages[userMsgId - 1].role = "assistant"
    /\ messages[userMsgId - 2].role = "user"
    /\ messages[userMsgId - 2].content = params.message

\* the memory item an invocation writes for its inbound text
OwnMemoryItem == EmbeddingRow(params.message, "user_message", profile)

InputOf(o) == rrResults[o.id]

\* C21: rerankResults returns min(len(candidates), maxResults) elements, each
\* an input candidate and none twice, ordered by non-increasing composite
\* score with equal scores in input order, and no candidate left out scores
\* higher than one that is returned.
C21_RerankIsStableTopN ==
    rrOut.run =>
        LET n == Len(rrOut.value)
            terms == queryTermsOf(rrQuery)
        IN  /\ n = IF Len(rrResults) < rrMaxResults THEN Len(rrResults)
                   ELSE rrMaxResults
            /\ \A j \in 1..n :
                  /\ rrOut.value[j].id \in 1..Len(rrResults)
                  /\ rrOut.value[j].content = InputOf(rrOut.value[j]).content
                  /\ rrOut.value[j].source = InputOf(rrOut.value[j]).source
                  /\ rrOut.value[j].similarity = InputOf(rrOut.value[j]).similarity
                  /\ rrOut.value[j].totalScore = totalScoreOf(InputOf(rrOut.value[j]), terms)
            /\ \A j, k \in 1..n :
                  j < k =>
                    /\ rrOut.value[j].id # rrOut.value[k].id
                    /\ rrOut.value[j].totalScore >= rrOut.value[k].totalScore
                    /\ rrOut.value[j].totalScore = rrOut.value[k].totalScore
                         => rrOut.value[j].id < rrOut.value[k].id
            /\ \A i \in 1..Len(rrResults) :
                  (\A j \in 1..n : rrOut.value[j].id # i) =>
                     \A j \in 1..n :
                        totalScoreOf(rrResults[i], terms) <= rrOut.value[j].totalScore

\* a call that had to cut, to reorder, and to keep two equal scores in
\* their input order
C21_Witness ==
    /\ rrOut.run
    /\ Len(rrOut.value) = 2
    /\ Len(rrResults) = 3
    /\ rrOut.value[1].id = 2
    /\ rrOut.value[2].id = 1
    /\ rrOut.value[2].totalScore = totalScoreOf(rrResults[3], queryTermsOf(rrQuery))
    /\ rrOut.value[1].totalScore > rrOut.value[2].totalScore

\* C22: the keyword bonus of a candidate is (matched terms / total terms) *
\* 0.2 over the lower-cased, whitespace-split query terms longer than 2
\* characters: 0 when there is no such term, 0.2 when every term is found in
\* the lower-cased content, and within [0, 0.2]; the recency bonus is 0.05
\* exactly for the source "user_message" and 0 otherwise; the composite
\* score is the similarity plus the two.
C22_BonusValues ==
    rrOut.run =>
        LET terms == { t \in SplitWhiteSpace(toLowerCase(rrQuery), "", {}) :
                         Len(t) > 2 }
            size == Cardinality(terms)
        IN  /\ \A i \in 1..Len(rrResults) :
                  LET r == rrResults[i]
                      hits == Cardinality({ t \in terms :
                                Includes(toLowerCase(r.content), t) })
                      bonus == keywordScoreOf(r, queryTermsOf(rrQuery))
                  IN  /\ size = 0 => bonus = 0
                      /\ size > 0 => bonus * size = hits * 20 * ScoreScale
                      /\ (size > 0 /\ hits = size) => bonus = 20 * ScoreScale
                      /\ bonus >= 0
                      /\ bonus <= 20 * ScoreScale
                      /\ recencyBonusOf(r) =
                           IF r.source = "user_message" THEN 5 * ScoreScale
                           ELSE 0
            /\ \A j \in 1..Len(rrOut.value) :
                  LET o == rrOut.value[j]
                  IN  o.totalScore =
                        (IF o.similarity = NoSim THEN 70 ELSE o.similarity)
                            * ScoreScale
                        + keywordScoreOf(o, queryTermsOf(rrQuery))
                        + recencyBonusOf(o)

\* every term of the query is found in a candidate of the user-message
\* stream, which earns both bonuses in full
C22_Witness ==
    /\ rrOut.run
    /\ rrQuery = "time\tzones"
    /\ \E j \in 1..Len(rrOut.value) :
          /\ rrOut.value[j].content = "Time zones"
          /\ rrOut.value[j].source = "user_message"
          /\ rrOut.value[j].similarity = 75
          /\ rrOut.value[j].totalScore = (75 + 20 + 5) * ScoreScale
    /\ \E j \in 1..Len(rrOut.value) :
          /\ rrOut.value[j].content = "hello"
          /\ rrOut.value[j].source = "mcp_save_note"
          /\ rrOut.value[j].totalScore = 75 * ScoreScale

\* C23: the composite score of each retrieved candidate is built on the
\* similarity the vector search returned for it (the RPC returns one for
\* every row), not on the default 0.7.
C23_ScoreUsesReturnedSimilarity ==
    pc \in {"summarizeHistory", "dedup"} =>
        \A j \in 1..Len(rankedMatches) :
            LET o == rankedMatches[j]
                returned == Sim(queryEmbedding, o.content)
            IN  o.totalScore = returned * ScoreScale
                               + keywordScoreOf(o, queryTermsOf(params.message))
                               + recencyBonusOf(o)

\* the headings of the text part's sections, in order
PromptSections ==
    [ i \in 1..Len(parts[1].value) |-> parts[1].value[i].section ]

\* C24: the prompt is the system prompt, the memory section exactly when
\* there is a reranked candidate, the history section exactly when the
\* fetched history is not empty, the current-message section with the
\* inbound text, in this order and each once; then come the attachment
\* parts, each with its MIME type.
C24_PromptOrder ==
    pc = "grounded" =>
        /\ Len(parts) >= 1
        /\ parts[1].kind = "text"
        /\ PromptSections =
              << "system" >>
              \o (IF Len(rankedMatches) > 0
                  THEN << "## Relevant Memories" >> ELSE <<>>)
              \o (IF Len(recentMessages) > 8
                  THEN << "## Conversation Summary" >>
                  ELSE IF Len(recentMessages) > 0
                  THEN << "## Recent Conversation" >> ELSE <<>>)
              \o << "## Current Message" >>
        /\ parts[1].value[1].body =
              IF profile = NoProfile
              THEN "You are Zuychin, a helpful personal AI assistant."
              ELSE ProfileSysPrompt
        /\ parts[1].value[Len(parts[1].value)].body = "User: " \o params.message
        /\ Len(rankedMatches) > 0 =>
              /\ Len(parts[1].value[2].body) = Len(rankedMatches)
              /\ \A j \in 1..Len(rankedMatches) :
                    parts[1].value[2].body[j] =
                       [memory |-> j, content |-> rankedMatches[j].content]
        /\ Len(recentMessages) > 0 =>
              parts[1].value[Len(parts[1].value) - 1].body = historySection
        /\ Len(parts) = 1 + (IF params.imageBase64 # NoImage THEN 1 ELSE 0)
                          + (IF params.file # NoFile THEN 1 ELSE 0)
        /\ \A k \in 2..Len(parts) : parts[k].kind = "inlineData"
        /\ params.imageBase64 # NoImage =>
              parts[2].value = [mimeType |-> "image/jpeg",
                                data |-> params.imageBase64]
        /\ params.file # NoFile =>
              parts[Len(parts)].value = [mimeType |-> params.file.mimeType,
                                         data |-> params.file.base64]

\* a prompt with all four sections and both attachments
C24_Witness ==
    /\ pc = "grounded"
    /\ Len(PromptSections) = 4
    /\ Len(parts) = 3
    /\ parts[2].value.mimeType = "image/jpeg"
    /\ parts[3].value.mimeType = "application/pdf"


\* the calls of updateConversationTitle made so far
TitleWrites == Len(SelectSeq(ioLog, LAMBDA e : e = "updateConversationTitle"))

RECURSIVE Rebuilds(_, _)
\* the chunks, each followed by white space only, make up the text
Rebuilds(text, chunks) ==
    IF Len(chunks) = 0 THEN Len(text) = 0
    ELSE LET c == Head(chunks)
         IN  /\ Len(c) <= Len(text)
             /\ SubSeq(text, 1, Len(c)) = c
             /\ LET rest == SubSeq(text, Len(c) + 1, Len(text))
                    white == CHOOSE k \in 0..Len(rest) :
                                /\ \A i \in 1..k :
                                      SubSeq(rest, i, i) \in {" ", "\n", "\t"}
                                /\ k < Len(rest) =>
                                      SubSeq(rest, k + 1, k + 1)
                                         \notin {" ", "\n", "\t"}
                IN  Rebuilds(SubSeq(rest, white + 1, Len(rest)), Tail(chunks))

\* C26: for every text and every limit L >= 1, no chunk of splitMessage is
\* longer than L, and the chunks in order give back the text once the white
\* space dropped at the head of what followed each cut is put back.
C26_ChunksFitAndRebuild ==
    smChunks.run =>
        /\ \A i \in 1..Len(smChunks.value) :
              /\ Len(smChunks.value[i]) <= smMaxLength
              /\ Len(smChunks.value[i]) > 0
        /\ Rebuilds(smText, smChunks.value)

\* a text cut twice, with white space dropped after a cut
C26_Witness ==
    /\ smChunks.run
    /\ smText = "ab\nab"
    /\ smMaxLength = 2
    /\ smChunks.value = << "ab", "ab" >>


\* what remained to be split when chunk i was cut
RemainingAt(i) ==
    LET rem[k \in 1..i] ==
            IF k = 1 THEN smText
            ELSE TrimStart(SubSeq(rem[k - 1],
                                  Len(smChunks.value[k - 1]) + 1,
                                  Len(rem[k - 1])))
    IN  rem[i]

\* the positions (from 0) of ch in t that lie in lo..hi
PositionsOf(t, ch, lo, hi) ==
    { p \in lo..hi : p < Len(t) /\ SubSeq(t, p + 1, p + 1) = ch }

LastOf(positions) == CHOOSE p \in positions : \A q \in positions : q <= p

\* the transport calls made so far are the first chunks, in order, one call
\* a chunk
SentInOrder ==
    smChunks.run =>
        /\ Len(smSent) <= Len(smChunks.value)
        /\ \A i \in 1..Len(smSent) : smSent[i].chunk = smChunks.value[i]

\* C27 as stated: while more than the limit remains, the cut is at the last
\* newline within the limit whenever there is one, else at the last space
\* within the limit, else at the limit; the chunks are sent in order, one
\* transport call each.
C27_CutAtLastNewlineThenSpace ==
    /\ SentInOrder
    /\ smChunks.run =>
         \A i \in 1..Len(smChunks.value) :
            LET rem == RemainingAt(i)
                newlines == PositionsOf(rem, "\n", 1, smMaxLength)
                spaces == PositionsOf(rem, " ", 1, smMaxLength)
            IN  Len(rem) > smMaxLength =>
                   Len(smChunks.value[i]) =
                      IF newlines # {} THEN LastOf(newlines)
                      ELSE IF spaces # {} THEN LastOf(spaces)
                      ELSE smMaxLength

\* C27, amended: a newline or a space is used only when it is not before
\* half of the limit: the cut is at the last newline within the limit if
\* that newline is at or after half the limit, else at the last space
\* within the limit if that space is at or after half the limit, else at
\* the limit; the chunks are sent in order, one transport call each.
C27_CutNotBeforeHalf ==
    /\ SentInOrder
    /\ smChunks.run =>
         \A i \in 1..Len(smChunks.value) :
            LET rem == RemainingAt(i)
                newlines == PositionsOf(rem, "\n", 0, smMaxLength)
                spaces == PositionsOf(rem, " ", 0, smMaxLength)
            IN  Len(rem) > smMaxLength =>
                   Len(smChunks.value[i]) =
                      IF newlines # {} /\ 2 * LastOf(newlines) >= smMaxLength
                      THEN LastOf(newlines)
                      ELSE IF spaces # {} /\ 2 * LastOf(spaces) >= smMaxLength
                      THEN LastOf(spaces)
                      ELSE smMaxLength

\* a newline before half of the limit was passed over, the cut was made at
\* the space after it, and every chunk was sent
C27_Witness ==
    /\ smChunks.run
    /\ smText = "a\nb a"
    /\ smMaxLength = 3
    /\ smChunks.value = << "a\nb", "a" >>
    /\ Len(smSent) = 2
    /\ smSent[2] = [chunk |-> "a", ok |-> TRUE]


\* the reasons a request body is to be rejected for
ViolationsOf(req) ==
    (IF req.message \in {"<missing>", "<number>", ""}
     THEN {"Message is required."} ELSE {})
    \cup (IF req.message \notin {"<missing>", "<number>"}
             /\ Len(req.message) > 10000
          THEN {"Message is too long (max 10,000 characters)."} ELSE {})
    \cup (IF req.channel \notin {"<default>", "web", "discord"}
          THEN {"Invalid channel. Must be one of: web, discord"} ELSE {})
    \cup (IF req.file # NoFile /\ req.file.mimeType \notin ALL_SUPPORTED_MIME_TYPES
          THEN {"Unsupported file type: " \o req.file.mimeType} ELSE {})
    \cup (IF req.file # NoFile /\ req.file.size > 20 * 1024 * 1024
          THEN {"File too large. Max 20 MB."} ELSE {})

\* C28: a web request whose message is missing (absent or empty) or not a
\* string or longer than 10000 characters, whose channel is invalid, or whose file has an
\* unsupported MIME type or a size above 20 MB, is answered with status 400
\* and the reason of one of its violations; ragChat is not entered and
\* nothing is written for it.
C28_InvalidRequestRejected ==
    [][ pc = "idle" =>
        \A req \in WebRequests :
           (POST(req) /\ req.json /\ ViolationsOf(req) # {}) =>
              /\ outcome'.status = 400
              /\ outcome'.text \in ViolationsOf(req)
              /\ pc' = "answered"
              /\ params' = params
              /\ messages' = messages
              /\ embeddings' = embeddings
              /\ titles' = titles
              /\ pendingStore' = pendingStore
              /\ ioLog' = ioLog
              /\ genLog' = genLog
      ]_vars

\* a request was refused for the size of its file
C28_Witness ==
    /\ pc = "answered"
    /\ caller = "web"
    /\ outcome.status = 400
    /\ outcome.text = "File too large. Max 20 MB."


\* the request carries the signature Meta computes for its body with the
\* application's secret
SignaturePasses(req) ==
    /\ req.appSecret # NoSecret
    /\ req.signature = "sha256=" \o HmacHex(req.appSecret, req.rawBody)

\* C29: in production the webhook handler calls ragChat only for a request
\* whose signature passed; for a request whose signature is missing,
\* malformed or wrong, ragChat is not entered, nothing is written to the
\* store and no reply is sent.
C29_SignatureGatesPipeline ==
    (whReq # NoWebhook /\ whReq.env = "production"
       /\ ~SignaturePasses(whReq)) =>
          /\ pc = "answered"
          /\ outcome \in {WebhookAnswer(401, "Invalid signature"),
                          WebhookAnswer(200, "error")}
          /\ params = NoParams
          /\ ioLog = <<>>
          /\ genLog = <<>>
          /\ messages = <<>>
          /\ embeddings = <<>>
          /\ pendingStore = {}
          /\ whQueue = <<>>
          /\ whSends = <<>>

\* a production request whose body holds a message and whose signature is
\* that of another body was refused
C29_Witness ==
    /\ pc = "answered"
    /\ whReq.env = "production"
    /\ whReq.appSecret = AppSecret
    /\ whReq.rawBody = RawText
    /\ whReq.signature = "sha256=" \o HmacHex(AppSecret, RawNoMessages)
    /\ outcome.status = 401


RowsOfRole(role) ==
    Cardinality({ i \in 1..Len(messages) : messages[i].role = role })

\* the rows the other invocations have inserted so far
RowsOfOthers ==
    Cardinality({ i \in 1..Len(others) :
                     others[i].stage \in {"userSaved", "threwAfterSave",
                                          "returned"} })
    + Cardinality({ i \in 1..Len(others) : others[i].stage = "returned" })

\* the invocation followed has returned, or its caller has answered for it
Succeeded == pc = "returned" \/ (pc = "answered" /\ outcome.status = 200)

C30_StateInv ==
    /\ RowsOfRole("assistant") <= RowsOfRole("user")
    /\ Succeeded =>
         /\ Len(messages) = 2 + RowsOfOthers
         /\ userMsgId \in 1..Len(messages)
         /\ messages[userMsgId] =
               [role |-> "user", content |-> params.message,
                channel |-> params.channel, conv |-> params.conversationId]
         /\ \E j \in (userMsgId + 1)..Len(messages) :
               messages[j] =
                  [role |-> "assistant", content |-> reply,
                   channel |-> params.channel,
                   conv |-> params.conversationId]
    /\ Len(messages) - RowsOfOthers \in 0..2
    /\ pc \in {"threw", "answered"} /\ ~Succeeded =>
          Len(messages) - RowsOfOthers \in 0..1

\* C30: Messages are only inserted, never changed or removed; an invocation
\* of ragChat that succeeds has inserted exactly one user Message and one
\* assistant Message, both with its channel and conversation id; however
\* the invocations interleave, there are never more assistant Messages than
\* user Messages in the store.
C30_MessagesOnlyInserted ==
    /\ []C30_StateInv
    /\ [][ \/ messages' = messages
           \/ /\ Len(messages') = Len(messages) + 1
              /\ SubSeq(messages', 1, Len(messages)) = messages ]_vars

\* the invocation followed succeeded while another one had saved its user
\* row before it and its reply after it
C30_Witness ==
    /\ pc = "returned"
    /\ Len(messages) = 4
    /\ messages[1].role = "user" /\ messages[1].channel = "discord"
    /\ messages[2].role = "user" /\ messages[2].channel = "web"
    /\ messages[3].role = "assistant" /\ messages[3].channel = "web"
    /\ messages[4].role = "assistant" /\ messages[4].channel = "discord"


\* ------------------------------------------------------------------------
\* C33: each round of the tool loop executes exactly one tool, the first
\* call of the latest model response: a step that executes a tool raises the
\* execution count by one, starts from as many executions as rounds are
\* completed, and dispatches the head of response.functionCalls, whatever
\* other calls the response carries; the count never exceeds the completed
\* rounds by more than the round in progress, and once the loop is left for
\* the reply the executions equal the completed rounds.
\* ------------------------------------------------------------------------
C33_CountsAgree ==
    /\ toolExecs \in {round, round + 1}
    /\ pc = "executeTool" => toolExecs = round
    /\ pc = "regenerate" => toolExecs = round + 1
    /\ pc \in {"saveReply", "updateTitle", "returned"} => toolExecs = round

C37_FailedAtUserSave ==
    /\ pc \in {"threw", "answered"}
    /\ Len(ioLog) > 0
    /\ ioLog[Len(ioLog)] = "saveMessage:user"

C37_StateInv ==
    C37_FailedAtUserSave =>
        /\ ioLog = << "getDefaultProfile", "saveMessage:user" >>
        /\ error = ErrSaveMessage
        /\ userMsgId = NoId
        /\ genLog = <<>>
        /\ toolExecs = 0
        /\ pendingStore = {}
        /\ outcome.kind # "none" => outcome.messageId = NoId

\* C37: a failed insert of the inbound user message ends ragChat at once,
\* with no further backend call and no write to the store.
C37_UserSaveFailureEndsTurn ==
    /\ []C37_StateInv
    /\ [][ (pc = "saveUserMessage" /\ pc' # pc /\ messages' = messages) =>
             /\ pc' = "threw"
             /\ error' = ErrSaveMessage
             /\ UNCHANGED << storeVars, genLog, toolExecs >> ]_vars
    /\ [][ C37_FailedAtUserSave =>
             UNCHANGED << storeVars, obsVars >> ]_vars

\* the insert of the user row failed on a store that holds memories and
\* rows, and the caller has answered
C37_Witness ==
    /\ C37_FailedAtUserSave
    /\ pc = "answered"
    /\ error = ErrSaveMessage
    /\ Len(embeddings) > 0


\* ------------------------------------------------------------------------
\* The history window of the invocation itself
\* ------------------------------------------------------------------------
\* the newest fetched row is the inbound message of this invocation, it is
\* the last line of the history section, and the prompt carries the history
\* section and the current-message section with the inbound text
OwnMessageEndsHistory ==
    /\ Len(recentMessages) > 0
    /\ recentMessages[Len(recentMessages)].id = userMsgId
    /\ recentMessages[Len(recentMessages)].role = "user"
    /\ recentMessages[Len(recentMessages)].content = params.message
    /\ historySection.kind # "none"
    /\ Len(historySection.lines) > 0
    /\ historySection.lines[Len(historySection.lines)] =
          [label |-> "User", content |-> params.message]
    /\ \E i \in 1..Len(parts[1].value) :
          /\ parts[1].value[i].section \in {"## Recent Conversation",
                                            "## Conversation Summary"}
          /\ parts[1].value[i].body = historySection
    /\ parts[1].value[Len(parts[1].value)] =
          [section |-> "## Current Message",
           body |-> "User: " \o params.message]

\* the fetch gave nothing and the prompt has no history section
HistoryFetchGaveNothing ==
    /\ recentMessages = <<>>
    /\ historySection = NoHistory
    /\ \A i \in 1..Len(parts[1].value) :
          parts[1].value[i].section \notin {"## Recent Conversation",
                                            "## Conversation Summary"}

\* C35 as stated: the history an invocation running alone fetches always
\* holds its own inbound message as the newest entry, so the history section
\* of its prompt is never empty and the inbound text is in the history section
\* and in the current-message section.
C35_HistoryAlwaysHoldsInbound ==
    pc = "grounded" => OwnMessageEndsHistory

\* C35: when the prompt of an invocation running alone is assembled, either
\* the history fetch gave nothing (getRecentMessages answers a failed query
\* with an empty list) and the prompt has no history section, or the newest
\* fetched row is the invocation's own inbound message, it ends the history
\* section, and the inbound text is in the history section and in the
\* current-message section; the fetch is issued after the inbound row is
\* inserted.
C35_FetchedHistoryEndsWithInbound ==
    /\ [](pc = "grounded" =>
            HistoryFetchGaveNothing \/ OwnMessageEndsHistory)
    /\ [][ (pc = "retrieve" /\ pc' # pc) =>
             /\ userMsgId \in 1..Len(messages)
             /\ messages[userMsgId] = UserRow
             /\ userMsgId = Len(messages) ]_vars

\* the first message of a conversation: the store was empty, and the history
\* section holds the inbound message alone
C35_Witness ==
    /\ pc = "grounded"
    /\ Len(messages) = 1
    /\ Len(recentMessages) = 1
    /\ params.conversationId # NoConv
    /\ OwnMessageEndsHistory


\* ------------------------------------------------------------------------
\* C36: the title of a conversation is rewritten by every turn that succeeds
\* with a conversation id, not only the first. Every such turn calls
\* updateConversationTitle once, after its reply is persisted; the call
\* either leaves the title (the store rejected the write) or sets it to the
\* title of that turn's inbound message; no other step changes a title, so
\* after any sequence of turns the title is the one derived from the message
\* of the turn whose write took effect last, and a turn that fails before
\* its reply is persisted leaves the title as it was.
\* ------------------------------------------------------------------------
C36_TitleIsOfSomeTurn ==
    \A c \in DOMAIN titles :
        \/ titles[c] = "old title"
        \/ \E i \in 1..Len(messages) :
              /\ messages[i].role = "user"
              /\ messages[i].conv = c
              /\ i < Len(messages)
              /\ titles[c] = TitleOf(messages[i].content)

PastGate ==
    /\ whReq # NoWebhook
    /\ whReq.env = "production" => SignaturePasses(whReq)
    /\ ~ParseThrows(whReq.rawBody)

\* the messages of the batch that were never handed to ragChat: the queue,
\* less its head when the invocation for the head is the one that failed
NeverProcessed ==
    IF Len(whQueue) > 0 /\ error # NoError THEN Tail(whQueue) ELSE whQueue

\* C38: past the signature gate the webhook handler always answers with
\* status 200, also when the pipeline or a send fails; the messages of the
\* batch are processed in order, one ragChat invocation and one reply send
\* for each, and every message of the batch is processed.
C38_WholeBatchProcessed ==
    (caller = "webhook" /\ pc = "answered" /\ PastGate) =>
        /\ outcome.status = 200
        /\ NeverProcessed = <<>>
        /\ LET batch == parseMetaWebhook(whReq.rawBody)
           IN  /\ Len(whSends) <= Len(batch)
               /\ \A i \in 1..Len(whSends) :
                     /\ whSends[i].to = batch[i].senderId
                     /\ whSends[i].channel = batch[i].channel


\* ------------------------------------------------------------------------
\* C39: for every text and every limit L >= 1 splitMessage terminates: its
\* result exists for every input, each iteration of the loop cuts at least
\* one character off what remains, so what remains gets strictly shorter
\* from one chunk to the next and there are at most as many chunks as the
\* text has characters, and no chunk is the empty string.
\* ------------------------------------------------------------------------
C39_EveryCutMakesProgress ==
    smChunks.run =>
        /\ smMaxLength >= 1
        /\ Len(smChunks.value) <= Len(smText)
        /\ \A i \in 1..Len(smChunks.value) :
              /\ smChunks.value[i] # ""
              /\ Len(smChunks.value[i]) >= 1
              /\ Len(RemainingAt(i)) >= Len(smChunks.value[i])
              /\ Len(RemainingAt(i + 1)) < Len(RemainingAt(i))
              /\ i < Len(smChunks.value) =>
                    Len(RemainingAt(i)) > smMaxLength
              /\ Len(RemainingAt(i)) <= smMaxLength =>
                    RemainingAt(i) = smChunks.value[i]
        /\ RemainingAt(Len(smChunks.value) + 1) = ""

\* a text that starts with a space and is cut with limit 1: the loop ran as
\* often as the text has characters but one, every chunk one character
C39_Witness ==
    /\ smChunks.run
    /\ smMaxLength = 1
    /\ smText = " a ab"
    /\ Len(smChunks.value) >= 3
    /\ smChunks.value[1] = " "


\* ------------------------------------------------------------------------
\* The memory write of a turn whose generation fails
\* ------------------------------------------------------------------------
\* the dedup guard of this invocation authorised storing
StoreAuthorised == \E i \in 1..Len(ioLog) : ioLog[i] = "storeEmbedding"

\* the grounded request and the fallback request both failed
GenerationFailed ==
    /\ pc \in {"threw", "answered"}
    /\ error = ErrGenerate
    /\ Len(genLog) = 2
    /\ genLog[1].site = "grounded"
    /\ genLog[2].site = "fallback"

\* a memory item for the inbound text is in the store
MemoryItemStored ==
    \E i \in 1..Len(embeddings) :
        /\ embeddings[i].content = params.message
        /\ embeddings[i].source = "user_message"

\* the invocation before this one saved its user row for the same text and
\* persisted no reply
PrevFailedSameText ==
    /\ userMsgId >= 2
    /\ messages[userMsgId - 1].role = "user"
    /\ messages[userMsgId - 1].content = params.message

InsideRagChat ==
    pc \notin {"idle", "returned", "threw", "answered"}

SummaryRequests == Len(SelectSeq(genLog, LAMBDA e : e.site = "summary"))

C32_RequestsBounded ==
    /\ SummaryRequests <= 1
    /\ GroundedRequests <= 1
    /\ ToolModeRequests <= 1 + maxToolRounds
    /\ Len(genLog) <= 3 + maxToolRounds

\* C32: every invocation of ragChat eventually returns or fails when the
\* calls it awaits settle, and its generation requests stay within one
\* summarization, one grounded and 1 + maxToolRounds tool-mode requests.
C32_RagChatTerminates ==
    /\ []C32_RequestsBounded
    /\ InsideRagChat ~> (pc \in {"returned", "threw"})

\* an invocation that issued every request it can has returned: the
\* summarization, the grounded request, the fallback and maxToolRounds
\* requests of the loop
C32_Witness ==
    /\ pc = "returned"
    /\ SummaryRequests = 1
    /\ GroundedRequests = 1
    /\ ToolModeRequests = 1 + maxToolRounds


\* ------------------------------------------------------------------------
\* Two invocations for the same text and owner on one memory store
\* ------------------------------------------------------------------------
\* the memory items stored for the inbound text of the invocation followed
StoredForText ==
    Cardinality({ i \in 1..Len(embeddings) : embeddings[i] = OwnMemoryItem })

\* the other invocation carries the same text for the same owner and its
\* dedup search succeeded, as did the search of the invocation followed,
\* which has just passed its guard
BothChecked ==
    /\ pc = "grounded"
    /\ ~dupes.failed
    /\ queryEmbedding = params.message
    /\ profile = ProfileId
    /\ Len(others) = 1
    /\ others[1].params.message = params.message
    /\ others[1].stage # "searchFailed"

\* C31 as stated: whatever the interleaving of two invocations that carry
\* the same text for the same owner on a memory store that started empty, at
\* most one memory item with that content is stored.
C31_AtMostOneStored ==
    BothChecked => StoredForText <= 1

\* C31, amended: the dedup search and the memory write are two separate
\* calls to the store, so the two invocations can both search before either
\* write is stored and then both store. Each invocation issues at most one
\* write, so at most two items result; an invocation whose search succeeds
\* after the other's item is in the store finds it and issues no write, and
\* then one item is stored.
C31_StoredAndInFlight ==
    StoredForText
    + Cardinality({ p \in pendingStore : p.row = OwnMemoryItem })

\* C31, amended: a dedup guard finds exactly the items that are in the
\* store when its search runs; two concurrent invocations for the same text
\* and owner store at most two items, and one when the second search runs
\* after the first write is stored.
C31_GuardSeesOnlyStoredItems ==
    /\ [](BothChecked => C31_StoredAndInFlight <= 2)
    /\ [][ (/\ pc = "dedup"
            /\ ioLog' # ioLog
            /\ Len(others) = 1
            /\ others[1].params.message = params.message
            /\ queryEmbedding = params.message
            /\ ~dupes'.failed)
           => /\ isDupe' <=>
                    \E i \in 1..Len(embeddings) :
                       /\ embeddings[i].content = params.message
                       /\ profile # NoProfile =>
                             embeddings[i].owner = profile
              /\ isDupe' => pendingStore' = pendingStore
              /\ ~isDupe' =>
                    pendingStore' = pendingStore
                       \cup {[turn |-> turn, row |-> OwnMemoryItem]} ]_vars
    /\ [][ (others' # others /\ others'[Len(others')].stage = "skipped") =>
             /\ pendingStore' = pendingStore
             /\ \E i \in 1..Len(embeddings) :
                   embeddings[i].content = others'[Len(others')].params.message
         ]_vars

\* the other invocation's item was in the store when the invocation followed
\* ran its guard: the guard found it and one item is stored
C31_Witness ==
    /\ BothChecked
    /\ others[1].stage = "authorised"
    /\ isDupe
    /\ pendingStore = {}
    /\ StoredForText = 1

====
